---- MODULE Spec2Model ----
(***************************************************************************)
(* PR discovery and enrichment pipeline of review-ops                      *)
(* (src/src/github_client.py, class GitHubClient).                         *)
(*                                                                         *)
(* Text values.  A repository name is the sequence of its "/"-separated    *)
(* segments: "acme/api" is <<"acme", "api">> and the short name "api" is   *)
(* <<"api">>, so that split("/") is an operation on the value.  A user     *)
(* name is a string of the finite universe Names, on which str.lower() is  *)
(* the table Lower.  Python's None for a team's member list is the record  *)
(* NoneMembers; a list l is ListMembers(l).                                *)
(***************************************************************************)
EXTENDS Integers, Sequences, FiniteSets, TLC

VARIABLES
    pc,                  \* position of the run / of the operation under check
    team_usernames,      \* fetch_team_prs argument: the tracked usernames
    pr_search_metadata,  \* dict (repo, number) -> set of search tags
    all_prs,             \* list of PullRequest built by the detail phase
    filtered_prs,        \* list returned by _filter_by_team_member_presence
    team_max_size,       \* max_size of the team expansion under check
    team_input,          \* what the two team calls of that expansion answered
    team_result,         \* what the expansion returned
    team_calls,          \* the calls the expansion issued, in order
    max_retries,         \* self.max_retries
    retry_backoff_base,  \* self.retry_backoff_base, in seconds
    metrics,             \* self.metrics, an APICallMetrics
    rpc,                 \* position of _retry_with_backoff
    attempt,             \* its local attempt
    errors,              \* the errors func() raised in this call, in order
    waits,               \* the time.sleep() durations of this call, in order
    func_calls,          \* how often this call invoked func()
    use_graphql_batch,   \* self.use_graphql_batch
    api_call_delay,      \* self.api_call_delay, in seconds
    usernames_left,      \* the usernames the search loop has not finished, in its order
    review_status,       \* the search the loop is at for the first of them
    pr_keys,             \* the members of the set pr_keys, in a fixed listing order
    fetch_left,          \* the detail fetches not done yet, in iteration order
    delay_sleeps,        \* the time.sleep(api_call_delay) durations, in order
    raised,              \* the exception that left fetch_team_prs, or "none"
    found,               \* history: per PR identity, the kinds of search that returned it
    detail_requests,     \* history: per PR identity, how often its details were requested
    rate_limit_wait_threshold,  \* config.rate_limit_wait_threshold, in seconds
    quota_probe,         \* what the quota probe of check_rate_limit answered, and the clock
    check_result,        \* what check_rate_limit did: the exception or the value returned
    proceed,             \* what _should_proceed returned, "not called" before
    slept,               \* the time.sleep(1) calls of _wait_for_reset
    exit_code,           \* what main returned, -1 while it runs
    search_started,      \* main reached the first search of fetch_team_prs
    searches,            \* history: per username, the searches issued for it, in order
    verdicts,            \* history: what _classify_error returned for each of errors
    detail_call,         \* the detail fetch under check: its arguments and the remote's answer
    detail_result,       \* what that detail fetch returned or raised
    staleness_days,      \* StalePR.staleness_days, in quarters of a day
    category             \* what StalePR.category returned, "not read" before

filterVars == <<team_usernames, pr_search_metadata, all_prs, filtered_prs>>

teamVars == <<team_max_size, team_input, team_result, team_calls>>

configVars == <<max_retries, retry_backoff_base, use_graphql_batch, api_call_delay>>

runVars ==
    <<usernames_left, review_status, pr_keys, fetch_left, delay_sleeps, raised, found,
      detail_requests, searches>>

retryVars == <<rpc, attempt, errors, waits, func_calls, verdicts>>

detailVars == <<detail_call, detail_result>>

staleVars == <<staleness_days, category>>

quotaVars ==
    <<rate_limit_wait_threshold, quota_probe, check_result, proceed, slept, exit_code,
      search_started>>

vars ==
    <<pc, filterVars, teamVars, configVars, metrics, retryVars, runVars, quotaVars,
      detailVars, staleVars>>

(***************************************************************************)
(* Bounds of the model.                                                    *)
(***************************************************************************)
MaxFilterPRs == 2        \* longest all_prs list given to the filter alone
MaxSmallCount == 3       \* small member counts and size caps tried: 0..MaxSmallCount
MaxRetries == 2          \* max_retries tried: 0..MaxRetries
MaxBackoffBase == 2      \* retry_backoff_base tried: 1..MaxBackoffBase seconds
MaxRetryAfter == 2       \* Retry-After values tried: 0..MaxRetryAfter seconds
MaxRunRetryWaits == 1    \* retries counted in one run of fetch_team_prs
MaxThreshold == 2        \* rate_limit_wait_threshold tried: 1..MaxThreshold seconds
MaxWait == 4             \* wait_seconds given to _should_proceed: -1..MaxWait
MaxResetAt == 5          \* reset timestamps the probe reports: 0..MaxResetAt seconds
MaxQuarterDays == 60     \* staleness tried: 0..MaxQuarterDays quarters of a business day
MaxCountdown == 12       \* wait_seconds given to _wait_for_reset alone: -1..MaxCountdown

(***************************************************************************)
(* Values.                                                                 *)
(***************************************************************************)
Names == {"alice", "Alice", "bob", "BOB", "carol", "dave"}

NoneMembers == [known |-> FALSE, list |-> <<>>]

ListMembers(l) == [known |-> TRUE, list |-> l]

GitHubTeamReviewRequest(slug, members) == [team_slug |-> slug, members |-> members]

\* ready_at is None or a time; the only time a fetcher gives is created_at.
\* current_approvals is 0 until the fetcher has counted the reviews.
\* review_status is "None" for None.
PullRequest(repo_name, number, reviewers, teams) ==
    [repo_name |-> repo_name, number |-> number, reviewers |-> reviewers,
     github_team_reviewers |-> teams, ready_at |-> "created_at", current_approvals |-> 0,
     review_status |-> "None"]

\* the tracked sets tried
TeamChoices == {{"alice", "bob"}, {"BOB"}}

\* the value of a list not built yet
NoResult == <<>>

\* max_size: int = 100
DefaultMaxSize == 100

\* a call that was not issued
NotCalled == [kind |-> "not called", stdout |-> <<>>]

\* APICallMetrics()
APICallMetrics ==
    [search_calls |-> 0, rest_detail_calls |-> 0, graphql_calls |-> 0,
     retry_attempts |-> 0, failed_calls |-> 0]

RetryIdle ==
    /\ rpc = "idle"
    /\ attempt = 0
    /\ errors = <<>>
    /\ waits = <<>>
    /\ func_calls = 0
    /\ verdicts = <<>>

ConfigIdle ==
    /\ max_retries = 0
    /\ retry_backoff_base = 1
    /\ use_graphql_batch = TRUE
    /\ api_call_delay = 0
    /\ metrics = APICallMetrics

\* the repositories and pull requests of the organization
RepoWeb == <<"acme", "web">>

RepoApi == <<"acme", "api">>

KeyOrder == <<<<RepoWeb, 42>>, <<RepoApi, 7>>, <<RepoApi, 8>>>>

PRUniverse == {KeyOrder[i] : i \in 1..Len(KeyOrder)}

ZeroCounts == [k \in PRUniverse |-> 0]

NeverFound == [k \in PRUniverse |-> {}]

NoSearches == [username \in UNION TeamChoices |-> <<>>]

\* no run of fetch_team_prs under way
RunIdle ==
    /\ usernames_left = <<>>
    /\ review_status = "none"
    /\ pr_keys = <<>>
    /\ fetch_left = <<>>
    /\ delay_sleeps = <<>>
    /\ raised = "none"
    /\ found = NeverFound
    /\ detail_requests = ZeroCounts
    /\ searches = NoSearches

\* no team expansion under way
TeamIdle ==
    /\ team_max_size = DefaultMaxSize
    /\ team_input = [count |-> NotCalled, listing |-> NotCalled]
    /\ team_result = NoneMembers
    /\ team_calls = <<>>

FilterIdle ==
    /\ team_usernames = {}
    /\ pr_search_metadata = <<>>
    /\ all_prs = <<>>
    /\ filtered_prs = NoResult

\* RateLimitStatus.wait_seconds: None, or a number of seconds
NoWait == [set |-> FALSE, seconds |-> 0]

Wait(n) == [set |-> TRUE, seconds |-> n]

RateLimitStatus(remaining, limit, reset_timestamp, is_exhausted, wait_seconds) ==
    [remaining |-> remaining, limit |-> limit, reset_timestamp |-> reset_timestamp,
     is_exhausted |-> is_exhausted, wait_seconds |-> wait_seconds]

NoStatus == RateLimitStatus(0, 0, 0, FALSE, NoWait)

\* what a call of check_rate_limit did: returned a status, returned None, or
\* raised
Returned(status) == [raises |-> "none", known |-> TRUE, status |-> status]

ReturnedNone == [raises |-> "none", known |-> FALSE, status |-> NoStatus]

Raised(exception) == [raises |-> exception, known |-> FALSE, status |-> NoStatus]

NotChecked == [raises |-> "not called", known |-> FALSE, status |-> NoStatus]

NoProbe == [outcome |-> NotCalled, clock2 |-> 0]

NoDetailResult == [raises |-> "not called", prs |-> <<>>]

NoDetailCall ==
    [path |-> "none", repo |-> <<>>, pr_numbers |-> <<>>, outcome |-> "not called",
     json |-> FALSE, datas |-> <<>>]

\* no detail fetch under check
DetailIdle ==
    /\ detail_call = NoDetailCall
    /\ detail_result = NoDetailResult

\* no StalePR under check
StaleIdle ==
    /\ staleness_days = 0
    /\ category = "not read"

\* no quota check under way
QuotaIdle ==
    /\ rate_limit_wait_threshold = 1
    /\ quota_probe = NoProbe
    /\ check_result = NotChecked
    /\ proceed = "not called"
    /\ slept = 0
    /\ exit_code = -1
    /\ search_started = FALSE

(***************************************************************************)
(* _filter_by_team_member_presence                                         *)
(***************************************************************************)
\* str.lower() on the universe of names
LowerCaseSensitive(u) == u

Lower(u) ==
    CASE u = "Alice" -> "alice"
      [] u = "BOB" -> "bob"
      [] OTHER -> u

\* {u.lower() for u in team_usernames}
LowerSet(S) == {Lower(u) : u \in S}

\* any(x.lower() in team_usernames_lower for x in names)
AnyTracked(names, team_usernames_lower) ==
    \E i \in 1..Len(names) : Lower(names[i]) \in team_usernames_lower

\* the loop over pr.github_team_reviewers, from its i-th element on: the value
\* of has_team_member when the loop ends
TeamLoopFirstOnly(teams, i, team_usernames_lower) ==
    IF i > Len(teams) THEN FALSE
    ELSE IF ~teams[i].members.known THEN TRUE
    ELSE AnyTracked(teams[i].members.list, team_usernames_lower)

RECURSIVE TeamLoop(_, _, _)
TeamLoop(teams, i, team_usernames_lower) ==
    IF i > Len(teams) THEN FALSE
    ELSE IF ~teams[i].members.known THEN TRUE
    ELSE IF AnyTracked(teams[i].members.list, team_usernames_lower) THEN TRUE
    ELSE TeamLoop(teams, i + 1, team_usernames_lower)

HasTeamMember(pr, team_usernames_lower) ==
    IF AnyTracked(pr.reviewers, team_usernames_lower) THEN TRUE
    ELSE TeamLoop(pr.github_team_reviewers, 1, team_usernames_lower)

\* pr_search_metadata.get(pr_key, set())
MetadataGet(metadata, pr_key) ==
    IF pr_key \in DOMAIN metadata THEN metadata[pr_key] ELSE {}

\* one iteration of the loop over all_prs: TRUE when pr is appended
KeepPRFilterAll(pr, metadata, team_usernames_lower) ==
    HasTeamMember(pr, team_usernames_lower)

KeepPR(pr, metadata, team_usernames_lower) ==
    IF "review:required" \in MetadataGet(metadata, <<pr.repo_name, pr.number>>)
    THEN HasTeamMember(pr, team_usernames_lower)
    ELSE TRUE

\* a filter that prepends what it keeps
FilterPrepending(prs, metadata, usernames) ==
    LET team_usernames_lower == LowerSet(usernames)
        Keep(pr) == KeepPR(pr, metadata, team_usernames_lower)
        kept == SelectSeq(prs, Keep)
    IN [i \in 1..Len(kept) |-> kept[Len(kept) + 1 - i]]

FilterByTeamMemberPresence(prs, metadata, usernames) ==
    LET team_usernames_lower == LowerSet(usernames)
        Keep(pr) == KeepPR(pr, metadata, team_usernames_lower)
    IN SelectSeq(prs, Keep)

\* Phase 3 of fetch_team_prs, and the filter called on its own
FilterPhase ==
    /\ pc = "filter"
    /\ filtered_prs' = FilterByTeamMemberPresence(all_prs, pr_search_metadata, team_usernames)
    /\ pc' = "done"
    /\ UNCHANGED <<team_usernames, pr_search_metadata, all_prs, teamVars,
                   configVars, detailVars, staleVars, quotaVars, metrics, retryVars, runVars>>

(***************************************************************************)
(* Team expansion: _fetch_github_team_members_with_limit and               *)
(* _fetch_github_team_members.  What one subprocess.run answers is a       *)
(* record: kind "ok" with the text of stdout, "exit" for                   *)
(* CalledProcessError, "timeout" for TimeoutExpired.  The stdout of the    *)
(* count call is a number or text int() rejects; the stdout of the listing *)
(* call is its sequence of lines, "" being a line of blanks.               *)
(***************************************************************************)
Ok(out) == [kind |-> "ok", stdout |-> out]

Exit == [kind |-> "exit", stdout |-> <<>>]

Timeout == [kind |-> "timeout", stdout |-> <<>>]

\* stdout of the count call: int(result.stdout.strip())
Digits(n) == [digits |-> TRUE, n |-> n]

NotDigits == [digits |-> FALSE, n |-> 0]

\* [line.strip() for line in stdout.strip().split("\n") if line.strip()]
ParseMembers(lines) == SelectSeq(lines, LAMBDA line : line # "")

\* _fetch_github_team_members: the list returned
FetchGithubTeamMembers(listing) ==
    IF listing.kind = "ok" THEN ParseMembers(listing.stdout) ELSE <<>>

\* members_count > max_size
ExceedsLimitOffByOne(members_count, max_size) == members_count > max_size + 1

ExceedsLimit(members_count, max_size) == members_count > max_size

\* an expansion that gives None for a team whose listing is empty
FetchEmptyAsUnknown(count, listing, max_size) ==
    IF count.kind # "ok" \/ ~count.stdout.digits
    THEN [members |-> NoneMembers, calls |-> <<"count">>]
    ELSE IF ExceedsLimit(count.stdout.n, max_size)
    THEN [members |-> NoneMembers, calls |-> <<"count">>]
    ELSE [members |-> IF FetchGithubTeamMembers(listing) = <<>>
                      THEN NoneMembers
                      ELSE ListMembers(FetchGithubTeamMembers(listing)),
          calls |-> <<"count", "list">>]

\* _fetch_github_team_members_with_limit: the value returned and the calls
\* issued; the listing call is issued only when the count call succeeded with
\* a number that does not exceed max_size
FetchGithubTeamMembersWithLimit(count, listing, max_size) ==
    IF count.kind # "ok" \/ ~count.stdout.digits
    THEN [members |-> NoneMembers, calls |-> <<"count">>]
    ELSE IF ExceedsLimit(count.stdout.n, max_size)
    THEN [members |-> NoneMembers, calls |-> <<"count">>]
    ELSE [members |-> ListMembers(FetchGithubTeamMembers(listing)),
          calls |-> <<"count", "list">>]

\* what the two calls can answer
CountValues == (0..MaxSmallCount) \cup {DefaultMaxSize, DefaultMaxSize + 1}

CountOutcomes ==
    {Ok(Digits(n)) : n \in CountValues} \cup {Ok(NotDigits), Exit, Timeout}

ListOutcomes ==
    {Ok(<<>>), Ok(<<"alice">>), Ok(<<"dave", "", "BOB">>), Exit, Timeout}

TeamExpansion ==
    /\ pc = "team"
    /\ \E count \in CountOutcomes, listing \in ListOutcomes :
         LET r == FetchGithubTeamMembersWithLimit(count, listing, team_max_size) IN
         /\ team_input' = [count |-> count, listing |-> listing]
         /\ team_result' = r.members
         /\ team_calls' = r.calls
    /\ pc' = "team done"
    /\ UNCHANGED <<team_max_size, filterVars, configVars, detailVars, staleVars, quotaVars, metrics, retryVars, runVars>>


(***************************************************************************)
(* Errors of a remote call.  The diagnostic text (stderr) is the sequence  *)
(* of its whitespace-separated tokens: a word, or a number.  "x in stderr" *)
(* for a phrase x is the occurrence of its tokens side by side.            *)
(***************************************************************************)
Word(w) == [w |-> w, n |-> -1]

Num(n) == [w |-> "#", n |-> n]

\* str.lower() on the words of the diagnostic texts
LowerWord(w) ==
    CASE w = "Rate" -> "rate"
      [] w = "Limit" -> "limit"
      [] w = "Retry-After:" -> "retry-after:"
      [] w = "HTTP" -> "http"
      [] w = "API" -> "api"
      [] OTHER -> w

LowerText(text) == [i \in 1..Len(text) |-> [text[i] EXCEPT !.w = LowerWord(@)]]

Words(ws) == [i \in 1..Len(ws) |-> Word(ws[i])]

\* phrase in text
Contains(text, phrase) ==
    \E i \in 1..(Len(text) - Len(phrase) + 1) :
        \A j \in 1..Len(phrase) : text[i + j - 1] = phrase[j]

CalledProcessError(stderr) == [type |-> "CalledProcessError", stderr |-> stderr]

TimeoutExpired == [type |-> "TimeoutExpired", stderr |-> <<>>]

\* any other exception func() raises, e.g. FileNotFoundError
OtherException == [type |-> "Exception", stderr |-> <<>>]

NetworkTerms ==
    {<<"timeout">>, <<"connection", "refused">>, <<"connection", "reset">>, <<"dns">>,
     <<"could", "not", "resolve">>, <<"name", "resolution">>, <<"unknown", "host">>}

\* the classifier with the two rate-limit tests exchanged
\* a classifier that reads the attempt counter: every error met after a retry
\* is "other"
ClassifyErrorStateful(error) ==
    IF attempt > 0 THEN "other"
    ELSE IF error.type = "TimeoutExpired" THEN "network"
    ELSE IF error.type = "CalledProcessError"
            /\ (Contains(error.stderr, <<Num(429)>>) \/ Contains(error.stderr, <<Num(403)>>))
    THEN "primary_rate_limit"
    ELSE "other"

ClassifyErrorPrimaryFirst(error) ==
    IF error.type = "TimeoutExpired" THEN "network"
    ELSE IF error.type = "CalledProcessError" THEN
        LET stderr == error.stderr
            stderr_lower == LowerText(stderr)
        IN IF Contains(stderr, <<Num(429)>>)
                \/ Contains(stderr_lower, Words(<<"rate", "limit">>))
           THEN "primary_rate_limit"
           ELSE IF Contains(stderr, <<Num(403)>>)
                    /\ Contains(stderr_lower, Words(<<"secondary", "rate", "limit">>))
           THEN "secondary_rate_limit"
           ELSE IF \E term \in NetworkTerms : Contains(stderr_lower, Words(term))
           THEN "network"
           ELSE "other"
    ELSE "other"

\* _classify_error
ClassifyError(error) ==
    IF error.type = "TimeoutExpired" THEN "network"
    ELSE IF error.type = "CalledProcessError" THEN
        LET stderr == error.stderr
            stderr_lower == LowerText(stderr)
        IN IF Contains(stderr, <<Num(403)>>)
                /\ Contains(stderr_lower, Words(<<"secondary", "rate", "limit">>))
           THEN "secondary_rate_limit"
           ELSE IF Contains(stderr, <<Num(429)>>)
                    \/ Contains(stderr_lower, Words(<<"rate", "limit">>))
           THEN "primary_rate_limit"
           ELSE IF \E term \in NetworkTerms : Contains(stderr_lower, Words(term))
           THEN "network"
           ELSE "other"
    ELSE "other"

\* 2**attempt
RECURSIVE Pow2(_)
Pow2(k) == IF k <= 0 THEN 1 ELSE 2 * Pow2(k - 1)

\* _calculate_backoff
CalculateBackoff(k, base) == base * Pow2(k)

\* _parse_retry_after: re.search(r"Retry-After:\s*(\d+)", stderr, re.IGNORECASE),
\* the first place where the header word is followed by a number
ParseRetryAfter(stderr) ==
    LET at == {i \in 1..(Len(stderr) - 1) :
                  /\ LowerWord(stderr[i].w) = "retry-after:"
                  /\ stderr[i + 1].n >= 0}
    IN IF at = {} THEN [found |-> FALSE, value |-> 0]
       ELSE LET first == CHOOSE i \in at : \A j \in at : i <= j
            IN [found |-> TRUE, value |-> stderr[first + 1].n]

\* error_type in ["network", "other"]
NoRetryTypeOtherOnly(error_type) == error_type = "other"

NoRetryType(error_type) == error_type \in {"network", "other"}

\* error_type in ["primary_rate_limit", "secondary_rate_limit"] and attempt < max_retries
MayRetry(error_type, k, n) ==
    error_type \in {"primary_rate_limit", "secondary_rate_limit"} /\ k < n

SecondaryBase == 60

\* the wait_time of the retry branch
WaitTime(error, error_type, k, base) ==
    LET retry_after == ParseRetryAfter(error.stderr)
    IN IF retry_after.found /\ retry_after.value # 0 THEN retry_after.value
       ELSE IF error_type = "secondary_rate_limit" THEN SecondaryBase * Pow2(k)
       ELSE CalculateBackoff(k, base)

\* an except block whose retry branch does not advance attempt
ExceptBlockNoAdvance(error, k, n, base) ==
    LET error_type == ClassifyError(error) IN
    IF NoRetryType(error_type)
    THEN [raise |-> TRUE, attempt |-> k, sleep |-> <<>>, retries |-> 0, failed |-> 0]
    ELSE IF MayRetry(error_type, k, n)
    THEN [raise |-> FALSE, attempt |-> k,
          sleep |-> <<WaitTime(error, error_type, k, base)>>, retries |-> 1, failed |-> 0]
    ELSE [raise |-> TRUE, attempt |-> k, sleep |-> <<>>, retries |-> 0, failed |-> 1]

\* an except block that waits before a retry without counting it
ExceptBlockUncounted(error, k, n, base) ==
    LET error_type == ClassifyError(error) IN
    IF NoRetryType(error_type)
    THEN [raise |-> TRUE, attempt |-> k, sleep |-> <<>>, retries |-> 0, failed |-> 0]
    ELSE IF MayRetry(error_type, k, n)
    THEN [raise |-> FALSE, attempt |-> k + 1,
          sleep |-> <<WaitTime(error, error_type, k, base)>>, retries |-> 0, failed |-> 0]
    ELSE [raise |-> TRUE, attempt |-> k, sleep |-> <<>>, retries |-> 0, failed |-> 1]

\* the except block of the loop for the error raised at attempt k: whether the
\* error is raised or the loop goes on, the new attempt, the sleep and the
\* counter increments
ExceptBlock(error, k, n, base) ==
    LET error_type == ClassifyError(error) IN
    IF NoRetryType(error_type)
    THEN [raise |-> TRUE, attempt |-> k, sleep |-> <<>>, retries |-> 0, failed |-> 0]
    ELSE IF MayRetry(error_type, k, n)
    THEN [raise |-> FALSE, attempt |-> k + 1,
          sleep |-> <<WaitTime(error, error_type, k, base)>>, retries |-> 1, failed |-> 0]
    ELSE IF k >= n
    THEN [raise |-> TRUE, attempt |-> k, sleep |-> <<>>, retries |-> 0, failed |-> 1]
    ELSE [raise |-> FALSE, attempt |-> k + 1, sleep |-> <<>>, retries |-> 0, failed |-> 0]

\* the diagnostic texts tried
RateLimitTexts ==
    {<<Word("HTTP"), Num(403), Word("secondary"), Word("rate"), Word("limit")>>,
     <<Word("HTTP"), Num(429)>>,
     <<Word("API"), Word("Rate"), Word("Limit"), Word("exceeded")>>}

RetryAfterTexts ==
    {text \o <<Word(h), Num(n)>> :
        text \in {<<Word("HTTP"), Num(403), Word("secondary"), Word("rate"), Word("limit")>>,
                  <<Word("HTTP"), Num(429)>>},
        h \in {"Retry-After:"}, n \in 0..MaxRetryAfter}
    \cup {<<Word("HTTP"), Num(429), Word("retry-after:"), Word("soon")>>}

OtherTexts ==
    {<<>>,
     <<Word("HTTP"), Num(404)>>,
     <<Word("HTTP"), Num(403), Word("Forbidden")>>,
     <<Word("HTTP"), Num(500)>>,
     <<Word("connection"), Word("refused")>>,
     <<Word("could"), Word("not"), Word("resolve"), Word("host")>>,
     <<Word("rate"), Word("limit"), Word("timeout")>>}

Errors ==
    {CalledProcessError(text) : text \in RateLimitTexts \cup RetryAfterTexts \cup OtherTexts}
        \cup {TimeoutExpired, OtherException}

\* the errors tried inside a run of fetch_team_prs: one of each verdict that
\* the callers of _retry_with_backoff tell apart
RunErrors ==
    {CalledProcessError(<<Word("HTTP"), Num(429)>>),
     CalledProcessError(<<Word("HTTP"), Num(404)>>),
     TimeoutExpired}

\* inside a run the retry counter is capped: no further error that leads to a
\* retry is tried once MaxRunRetryWaits retries were counted
ErrorsTried ==
    IF pc = "retry" THEN Errors
    ELSE {e \in RunErrors :
            MayRetry(ClassifyError(e), attempt, max_retries)
                => metrics.retry_attempts < MaxRunRetryWaits}

(***************************************************************************)
(* _retry_with_backoff.  rpc is "call" at the head of the loop, "returned" *)
(* once func() returned, "raised" once the error left the function.        *)
(***************************************************************************)
\* func() returns: the result is returned
FuncReturns ==
    /\ rpc = "call"
    /\ attempt <= max_retries
    /\ func_calls' = func_calls + 1
    /\ rpc' = "returned"
    /\ UNCHANGED <<pc, attempt, errors, verdicts, waits, metrics, configVars, detailVars, staleVars, quotaVars, filterVars, teamVars,
                   runVars>>

\* func() raises: the except block, then the loop test; leaving the loop by
\* its test counts a failed call and raises the last error
FuncRaises ==
    /\ rpc = "call"
    /\ attempt <= max_retries
    /\ \E error \in ErrorsTried :
         LET b == ExceptBlock(error, attempt, max_retries, retry_backoff_base)
             leaves == ~b.raise /\ b.attempt > max_retries
         IN /\ errors' = Append(errors, error)
            /\ verdicts' = Append(verdicts, ClassifyError(error))
            /\ func_calls' = func_calls + 1
            /\ attempt' = b.attempt
            /\ waits' = waits \o b.sleep
            /\ metrics' = [metrics EXCEPT
                              !.retry_attempts = @ + b.retries,
                              !.failed_calls = @ + b.failed + (IF leaves THEN 1 ELSE 0)]
            /\ rpc' = IF b.raise \/ leaves THEN "raised" ELSE "call"
    /\ UNCHANGED <<pc, configVars, detailVars, staleVars, quotaVars, filterVars, teamVars, runVars>>

\* the state on entry of the loop, for every max_retries and backoff_base
InitRetry ==
    /\ pc = "retry"
    /\ max_retries \in 0..MaxRetries
    /\ retry_backoff_base \in 1..MaxBackoffBase
    /\ use_graphql_batch = TRUE
    /\ api_call_delay = 0
    /\ metrics = APICallMetrics
    /\ rpc = "call"
    /\ attempt = 0
    /\ errors = <<>>
    /\ waits = <<>>
    /\ func_calls = 0
    /\ verdicts = <<>>
    /\ FilterIdle
    /\ TeamIdle
    /\ RunIdle
    /\ DetailIdle
    /\ StaleIdle
    /\ QuotaIdle

NextRetry == FuncReturns \/ FuncRaises

SpecRetry == InitRetry /\ [][NextRetry]_vars

\* the loop is sequential code and func() ends, by returning or by raising
\* (every subprocess call has a timeout): a step that can be taken is taken
SpecRetryFair == SpecRetry /\ WF_vars(NextRetry)

\* one team expansion, for every size cap
InitTeam ==
    /\ pc = "team"
    /\ team_max_size \in (1..MaxSmallCount) \cup {DefaultMaxSize}
    /\ team_input = [count |-> NotCalled, listing |-> NotCalled]
    /\ team_result = NoneMembers
    /\ team_calls = <<>>
    /\ FilterIdle
    /\ ConfigIdle
    /\ RetryIdle
    /\ RunIdle
    /\ DetailIdle
    /\ StaleIdle
    /\ QuotaIdle

SpecTeam == InitTeam /\ [][TeamExpansion]_vars

(***************************************************************************)
(* fetch_team_prs, phase 1: the two searches of every tracked username.    *)
(* The stdout of a search is a JSON list of results or text json.loads     *)
(* rejects.                                                                *)
(***************************************************************************)
Json(items) == [json |-> TRUE, items |-> items]

NotJson == [json |-> FALSE, items |-> <<>>]

Rank(k) == CHOOSE i \in 1..Len(KeyOrder) : KeyOrder[i] = k

\* the elements of a set of PR identities, listed in the order of KeyOrder
Listed(S) == SelectSeq(KeyOrder, LAMBDA k : k \in S)

InsertListed(keys, k) ==
    SelectSeq(keys, LAMBDA x : Rank(x) <= Rank(k)) \o <<k>>
        \o SelectSeq(keys, LAMBDA x : Rank(x) > Rank(k))

\* pr_keys.add(pr_key)
ListAppend(keys, k) == InsertListed(keys, k)

SetAdd(keys, k) ==
    IF \E i \in 1..Len(keys) : keys[i] = k THEN keys ELSE InsertListed(keys, k)

\* the origin set replaced by the tag of the latest search
MetadataAddOverwrite(metadata, k, tag) ==
    IF k \in DOMAIN metadata
    THEN [metadata EXCEPT ![k] = {tag}]
    ELSE metadata @@ (k :> {tag})

\* if pr_key not in pr_search_metadata: ... = set(); pr_search_metadata[pr_key].add(tag)
MetadataAdd(metadata, k, tag) ==
    IF k \in DOMAIN metadata
    THEN [metadata EXCEPT ![k] = @ \cup {tag}]
    ELSE metadata @@ (k :> {tag})

\* pr_key = (pr_data["repository"]["nameWithOwner"], pr_data["number"])
PrKey(pr_data) == <<pr_data.repository.nameWithOwner, pr_data.number>>

\* the loop over the results of one search, from its i-th result on
RECURSIVE CollectKeys(_, _, _, _, _)
CollectKeys(keys, metadata, results, i, tag) ==
    IF i > Len(results) THEN [pr_keys |-> keys, pr_search_metadata |-> metadata]
    ELSE CollectKeys(SetAdd(keys, PrKey(results[i])),
                     MetadataAdd(metadata, PrKey(results[i]), tag),
                     results, i + 1, tag)

SearchTag(status) == IF status = "none" THEN "review:none" ELSE "review:required"

SearchResult(k) == [repository |-> [nameWithOwner |-> k[1]], number |-> k[2]]

SearchOutputs ==
    {Json([i \in 1..Len(Listed(S)) |-> SearchResult(Listed(S)[i])]) : S \in SUBSET PRUniverse}
        \cup {NotJson}

\* the stdout of the quota probe: JSON with some of the fields, or no JSON
ProbeFields == {"remaining", "limit", "reset"}

ProbeOutcomes ==
    {Ok([json |-> TRUE, fields |-> ProbeFields]),
     Ok([json |-> TRUE, fields |-> {"remaining", "limit"}]),
     Ok([json |-> FALSE, fields |-> {}]),
     Exit, Timeout}

\* check_rate_limit raises when the response is JSON that lacks a required
\* field: the ValueError of the inner try is not among the errors caught
CheckRateLimitRaises(probe) ==
    probe.kind = "ok" /\ probe.stdout.json /\ probe.stdout.fields # ProbeFields

\* a loop that stops after the first element it visits
OrdersFirstOnly(S) == {<<x>> : x \in S}

\* the orders in which a loop can visit the elements of a set
Orders(S) ==
    {order \in [1..Cardinality(S) -> S] :
        \A i, j \in 1..Cardinality(S) : i # j => order[i] # order[j]}

\* entry of _retry_with_backoff
EnterRetry ==
    /\ rpc' = "call"
    /\ attempt' = 0
    /\ errors' = <<>>
    /\ waits' = <<>>
    /\ func_calls' = 0
    /\ verdicts' = <<>>

\* the locals of _retry_with_backoff are gone once its caller goes on
LeaveRetry ==
    /\ rpc' = "idle"
    /\ attempt' = 0
    /\ errors' = <<>>
    /\ waits' = <<>>
    /\ func_calls' = 0
    /\ verdicts' = <<>>

\* a delay that is skipped whatever its length
DelaySleepNever(sleeps, delay) == sleeps

\* time.sleep(self.api_call_delay) when the delay is positive
DelaySleep(sleeps, delay) == IF delay > 0 THEN Append(sleeps, delay) ELSE sleeps

\* fetch_team_prs up to its first search: the quota check, whose result is
\* dropped, and the order in which the loop visits team_usernames
StartRun ==
    /\ pc = "start"
    /\ \E probe \in ProbeOutcomes :
         IF CheckRateLimitRaises(probe)
         THEN /\ pc' = "raised"
              /\ raised' = "ValueError"
              /\ UNCHANGED usernames_left
         ELSE /\ pc' = "search"
              /\ usernames_left' \in Orders(team_usernames)
              /\ UNCHANGED raised
    /\ UNCHANGED <<review_status, pr_keys, fetch_left, delay_sleeps, found, detail_requests,
                   filterVars, teamVars, configVars, detailVars, staleVars, quotaVars, metrics, retryVars, searches>>

\* _search_prs_by_review_status enters _retry_with_backoff
BeginSearch ==
    /\ pc = "search"
    /\ rpc = "idle"
    /\ EnterRetry
    /\ searches' = [searches EXCEPT ![usernames_left[1]] = Append(@, review_status)]
    /\ UNCHANGED <<pc, usernames_left, review_status, pr_keys, fetch_left, delay_sleeps,
                   raised, found, detail_requests, filterVars, teamVars, configVars,
                   detailVars, staleVars, quotaVars, metrics>>

\* the search returned: json.loads, the loop over its results, the delay, and
\* the step to the next search or to phase 2
SearchReturned ==
    /\ pc = "search"
    /\ rpc = "returned"
    /\ \E out \in SearchOutputs :
         IF ~out.json
         THEN /\ pc' = "raised"
              /\ raised' = "ValueError"
              /\ UNCHANGED <<usernames_left, review_status, pr_keys, pr_search_metadata,
                             delay_sleeps, found>>
         ELSE LET c == CollectKeys(pr_keys, pr_search_metadata, out.items, 1,
                                   SearchTag(review_status))
                  returned == {PrKey(out.items[i]) : i \in 1..Len(out.items)}
                  last == review_status = "required" /\ Len(usernames_left) = 1
              IN /\ pr_keys' = c.pr_keys
                 /\ pr_search_metadata' = c.pr_search_metadata
                 /\ found' = [k \in PRUniverse |->
                                IF k \in returned THEN found[k] \cup {review_status}
                                ELSE found[k]]
                 /\ delay_sleeps' = DelaySleep(delay_sleeps, api_call_delay)
                 /\ review_status' = IF review_status = "none" THEN "required" ELSE "none"
                 /\ usernames_left' = IF review_status = "none" THEN usernames_left
                                      ELSE Tail(usernames_left)
                 /\ pc' = IF last THEN "details" ELSE "search"
                 /\ UNCHANGED raised
    /\ LeaveRetry
    /\ UNCHANGED <<fetch_left, detail_requests, team_usernames, all_prs, filtered_prs,
                   teamVars, configVars, detailVars, staleVars, quotaVars, metrics, searches>>

\* the search raised and the loop goes on to the next search all the same
SearchRaisedSkips ==
    /\ pc = "search"
    /\ rpc = "raised"
    /\ review_status' = IF review_status = "none" THEN "required" ELSE "none"
    /\ usernames_left' = IF review_status = "none" THEN usernames_left
                         ELSE Tail(usernames_left)
    /\ pc' = IF review_status = "required" /\ Len(usernames_left) = 1 THEN "details"
             ELSE "search"
    /\ LeaveRetry
    /\ UNCHANGED <<pr_keys, fetch_left, delay_sleeps, raised, found, detail_requests,
                   filterVars, teamVars, configVars, detailVars, staleVars, quotaVars, metrics, searches>>

\* the search raised: a CalledProcessError becomes a ValueError, any other
\* exception leaves fetch_team_prs as it is
SearchRaised ==
    /\ pc = "search"
    /\ rpc = "raised"
    /\ pc' = "raised"
    /\ raised' = IF errors[Len(errors)].type = "CalledProcessError" THEN "ValueError"
                 ELSE errors[Len(errors)].type
    /\ LeaveRetry
    /\ UNCHANGED <<usernames_left, review_status, pr_keys, fetch_left, delay_sleeps, found,
                   detail_requests, filterVars, teamVars, configVars, detailVars, staleVars, quotaVars, metrics, searches>>

(***************************************************************************)
(* fetch_team_prs, phase 2: the details of every discovered pull request,  *)
(* by one batch query per repository or by one gh pr view per pull         *)
(* request.  What the remote answers for one pull request is a record:     *)
(* present (the batch response holds its alias), complete (no key is       *)
(* missing), isDraft, and reviewRequests, a list of requests with a login  *)
(* (a user) or a slug (a team), "" standing for an absent key.             *)
(***************************************************************************)
UserRequest(login) == [login |-> login, slug |-> ""]

TeamRequest(slug) == [login |-> "", slug |-> slug]

PrData(present, complete, isDraft, requests) ==
    [present |-> present, complete |-> complete, isDraft |-> isDraft,
     reviewRequests |-> requests, reviews |-> <<>>, latestReviews |-> <<>>,
     reviewDecision |-> ""]

\* the reviewDecision of the response where it is no text: the key is absent,
\* or its value is null
AbsentDecision == "(absent)"

NullDecision == "(null)"

\* the data of a pull request with the decision the remote computed
Decided(data, decision) == [data EXCEPT !.reviewDecision = decision]

\* an empty or absent decision taken for a required review
ReviewStatusDefaulted(decision) ==
    IF decision \in {"", AbsentDecision, NullDecision} THEN "REVIEW_REQUIRED" ELSE decision

\* pr_data.get("reviewDecision") or None
ReviewStatus(decision) ==
    IF decision \in {"", AbsentDecision, NullDecision} THEN "None" ELSE decision

\* one review: the login of its author and its state
Review(author, state) == [author |-> author, state |-> state]

\* the author of a review is null (the account was deleted)
NullAuthor == "(null)"

\* the latestReviews field of gh pr view: of the reviews in submission order,
\* the last one of each author
LatestReviews(history) ==
    SelectSeq([i \in 1..Len(history) |-> [review |-> history[i], at |-> i]],
              LAMBDA e : \A j \in (e.at + 1)..Len(history) :
                            history[j].author # e.review.author)

\* the data of a pull request with the reviews submitted so far: reviews for
\* the batch query, latestReviews for gh pr view
Reviewed(data, history) ==
    LET latest == LatestReviews(history)
    IN [data EXCEPT !.reviews = history,
                    !.latestReviews = [i \in 1..Len(latest) |-> latest[i].review]]

\* sum(1 for review in latest_reviews if review.get("state") == "APPROVED")
RestApprovals(latest_reviews) ==
    Cardinality({i \in 1..Len(latest_reviews) : latest_reviews[i].state = "APPROVED"})

\* every approving review counted, whoever wrote it
BatchApprovalsAllReviews(reviews) ==
    Cardinality({i \in 1..Len(reviews) : reviews[i].state = "APPROVED"})

\* the loop filling latest_reviews_by_author: a later review of an author
\* overwrites the earlier one, a review without login is passed over
RECURSIVE LatestReviewsByAuthor(_, _, _)
LatestReviewsByAuthor(reviews, i, by_author) ==
    IF i > Len(reviews) THEN by_author
    ELSE LET author_login == reviews[i].author
         IN LatestReviewsByAuthor(
                reviews, i + 1,
                IF author_login # ""
                THEN (author_login :> reviews[i].state) @@ by_author
                ELSE by_author)

\* sum(1 for state in latest_reviews_by_author.values() if state == "APPROVED")
BatchApprovals(reviews) ==
    LET latest_reviews_by_author == LatestReviewsByAuthor(reviews, 1, <<>>)
    IN Cardinality({author \in DOMAIN latest_reviews_by_author :
                       latest_reviews_by_author[author] = "APPROVED"})

\* review.get("author", {}).get("login") of a review whose author is null
\* raises AttributeError
RaisesAttributeError(reviews) ==
    \E i \in 1..Len(reviews) : reviews[i].author = NullAuthor

\* reviewers = [req["login"] for req in review_requests if req.get("login")]
Reviewers(requests) ==
    LET users == SelectSeq(requests, LAMBDA req : req.login # "")
    IN [i \in 1..Len(users) |-> users[i].login]

\* the loop building github_team_reviewers: every request without login and
\* with a slug is expanded by _fetch_github_team_members_with_limit
TeamReviewers(requests, answers) ==
    LET teams == SelectSeq(requests, LAMBDA req : req.login = "" /\ req.slug # "")
    IN [i \in 1..Len(teams) |->
          GitHubTeamReviewRequest(
              teams[i].slug,
              FetchGithubTeamMembersWithLimit(answers.count, answers.listing,
                                              DefaultMaxSize).members)]

\* repo_full_name.split("/")[-1]
ShortName(repo_full_name) == <<repo_full_name[Len(repo_full_name)]>>

\* _fetch_pr_details after its call returned: <<>> for None, else the PullRequest
FetchPrDetails(repo_full_name, pr_number, out, answers) ==
    IF ~out.json \/ ~out.data.complete THEN <<>>
    ELSE IF out.data.isDraft THEN <<>>
    ELSE <<[PullRequest(ShortName(repo_full_name), pr_number,
                        Reviewers(out.data.reviewRequests),
                        TeamReviewers(out.data.reviewRequests, answers))
               EXCEPT !.current_approvals = RestApprovals(out.data.latestReviews),
                      !.review_status = ReviewStatus(out.data.reviewDecision)]>>

\* _group_prs_by_repo: the dict as the list of its items, in insertion order
RECURSIVE GroupPrsByRepo(_, _, _)
GroupPrsByRepo(prs_to_fetch, i, grouped) ==
    IF i > Len(prs_to_fetch) THEN grouped
    ELSE LET repo == prs_to_fetch[i][1]
             number == prs_to_fetch[i][2]
             at == {j \in 1..Len(grouped) : grouped[j].repo = repo}
         IN IF at = {}
            THEN GroupPrsByRepo(prs_to_fetch, i + 1,
                                Append(grouped, [repo |-> repo, numbers |-> <<number>>]))
            ELSE GroupPrsByRepo(prs_to_fetch, i + 1,
                                [j \in 1..Len(grouped) |->
                                    IF j \in at
                                    THEN [grouped[j] EXCEPT !.numbers = Append(@, number)]
                                    ELSE grouped[j]])

\* the loop of _fetch_pr_details_batch_graphql over pr_numbers, from the i-th
\* on: a number without data is skipped, and so is one whose data lacks a key;
\* isDraft is not read
RECURSIVE BatchLoop(_, _, _, _, _)
BatchLoop(repo, pr_numbers, i, datas, answers) ==
    IF i > Len(pr_numbers) THEN <<>>
    ELSE LET number == pr_numbers[i]
             pr_data == datas[number]
             rest == BatchLoop(repo, pr_numbers, i + 1, datas, answers)
         IN IF ~pr_data.present \/ ~pr_data.complete THEN rest
            ELSE <<[PullRequest(<<repo>>, number, Reviewers(pr_data.reviewRequests),
                                TeamReviewers(pr_data.reviewRequests, answers[number]))
                       EXCEPT !.current_approvals = BatchApprovals(pr_data.reviews),
                              !.review_status = ReviewStatus(pr_data.reviewDecision)]>>
                 \o rest

\* what the remote can answer for one pull request, with the answers of the
\* team calls when a team is requested
NoTeamCall == [count |-> NotCalled, listing |-> NotCalled]

TeamAnswers ==
    {[count |-> Ok(Digits(2)), listing |-> Ok(<<"Alice">>)],
     [count |-> Ok(Digits(2)), listing |-> Exit],
     [count |-> Ok(Digits(DefaultMaxSize + 1)), listing |-> Ok(<<"Alice">>)]}

PrAnswers ==
    {[data |-> d, answers |-> NoTeamCall] :
        d \in {PrData(FALSE, FALSE, FALSE, <<>>),
               PrData(TRUE, FALSE, FALSE, <<>>),
               PrData(TRUE, TRUE, TRUE, <<UserRequest("bob")>>),
               PrData(TRUE, TRUE, FALSE, <<UserRequest("bob")>>),
               PrData(TRUE, TRUE, FALSE, <<UserRequest("carol")>>)}}
    \cup {[data |-> PrData(TRUE, TRUE, FALSE, <<TeamRequest("core")>>), answers |-> a] :
             a \in TeamAnswers}

\* an iteration that meets every member of pr_keys twice
KeyOrdersRepeating(keys) == {keys \o keys}

\* orders in which the loop can visit the members of pr_keys: a set has no
\* order of its own; the listing order and its reverse are tried
KeyOrders(keys) == {keys, [i \in 1..Len(keys) |-> keys[Len(keys) + 1 - i]]}

\* the step from phase 1 to phase 2: the order of iteration over pr_keys and,
\* for the batch strategy, the grouping by repository
BeginDetails ==
    /\ pc = "details"
    /\ \E prs_to_fetch \in KeyOrders(pr_keys) :
         fetch_left' = IF use_graphql_batch
                       THEN GroupPrsByRepo(prs_to_fetch, 1, <<>>)
                       ELSE prs_to_fetch
    /\ pc' = IF pr_keys = <<>> THEN "filter" ELSE "fetch"
    /\ UNCHANGED <<usernames_left, review_status, pr_keys, delay_sleeps, raised, found,
                   detail_requests, filterVars, teamVars, configVars, detailVars, staleVars, quotaVars, metrics, retryVars, searches>>

\* the identities whose details the next fetch asks for, one per request
Requested(item) ==
    IF use_graphql_batch
    THEN [i \in 1..Len(item.numbers) |-> <<item.repo, item.numbers[i]>>]
    ELSE <<item>>

Occurrences(seq, x) == Cardinality({i \in 1..Len(seq) : seq[i] = x})

\* _fetch_pr_details or _fetch_pr_details_batch_graphql enters _retry_with_backoff
BeginFetch ==
    /\ pc = "fetch"
    /\ rpc = "idle"
    /\ EnterRetry
    /\ detail_requests' =
         [k \in PRUniverse |->
             detail_requests[k] + Occurrences(Requested(fetch_left[1]), k)]
    /\ UNCHANGED <<pc, usernames_left, review_status, pr_keys, fetch_left, delay_sleeps,
                   raised, found, filterVars, teamVars, configVars, detailVars, staleVars, quotaVars, metrics, searches>>

\* gh pr view returned: the pull request is appended unless the result is None
DetailReturned ==
    /\ pc = "fetch"
    /\ rpc = "returned"
    /\ ~use_graphql_batch
    /\ \E json \in BOOLEAN, answer \in PrAnswers :
         /\ answer.data.present
         /\ all_prs' = all_prs \o FetchPrDetails(fetch_left[1][1], fetch_left[1][2],
                                                 [json |-> json, data |-> answer.data],
                                                 answer.answers)
    /\ fetch_left' = Tail(fetch_left)
    /\ pc' = IF Len(fetch_left) = 1 THEN "filter" ELSE "fetch"
    /\ LeaveRetry
    /\ UNCHANGED <<usernames_left, review_status, pr_keys, delay_sleeps, raised, found,
                   detail_requests, team_usernames, pr_search_metadata, filtered_prs,
                   teamVars, configVars, detailVars, staleVars, quotaVars, metrics, searches>>

\* the batch query returned: the pull requests with data are appended and the
\* two counters updated, or nothing at all when the response is no JSON
BatchReturned ==
    /\ pc = "fetch"
    /\ rpc = "returned"
    /\ use_graphql_batch
    /\ LET repo == fetch_left[1].repo
           pr_numbers == fetch_left[1].numbers
           asked == {pr_numbers[i] : i \in 1..Len(pr_numbers)}
       IN \E json \in BOOLEAN, answer \in [asked -> PrAnswers] :
            IF json
            THEN /\ all_prs' = all_prs
                        \o BatchLoop(repo[2], pr_numbers, 1,
                                     [n \in asked |-> answer[n].data],
                                     [n \in asked |-> answer[n].answers])
                 /\ metrics' = [metrics EXCEPT
                                   !.graphql_calls = @ + 1,
                                   !.rest_detail_calls = @ + Len(pr_numbers)]
            ELSE UNCHANGED <<all_prs, metrics>>
    /\ fetch_left' = Tail(fetch_left)
    /\ pc' = IF Len(fetch_left) = 1 THEN "filter" ELSE "fetch"
    /\ LeaveRetry
    /\ UNCHANGED <<usernames_left, review_status, pr_keys, delay_sleeps, raised, found,
                   detail_requests, team_usernames, pr_search_metadata, filtered_prs,
                   teamVars, configVars, detailVars, staleVars, quotaVars, searches>>

\* the detail call raised: a CalledProcessError is logged and the fetch gives
\* nothing (the batch path counts a failed call); any other exception leaves
\* fetch_team_prs
FetchRaised ==
    /\ pc = "fetch"
    /\ rpc = "raised"
    /\ IF errors[Len(errors)].type = "CalledProcessError"
       THEN /\ metrics' = IF use_graphql_batch
                          THEN [metrics EXCEPT !.failed_calls = @ + 1]
                          ELSE metrics
            /\ fetch_left' = Tail(fetch_left)
            /\ pc' = IF Len(fetch_left) = 1 THEN "filter" ELSE "fetch"
            /\ UNCHANGED raised
       ELSE /\ pc' = "raised"
            /\ raised' = errors[Len(errors)].type
            /\ UNCHANGED <<metrics, fetch_left>>
    /\ LeaveRetry
    /\ UNCHANGED <<usernames_left, review_status, pr_keys, delay_sleeps, found,
                   detail_requests, filterVars, teamVars, configVars, detailVars, staleVars, quotaVars, searches>>

\* one run of fetch_team_prs, for every configuration
InitRun ==
    /\ pc = "start"
    /\ team_usernames \in TeamChoices
    /\ pr_search_metadata = <<>>
    /\ all_prs = <<>>
    /\ filtered_prs = NoResult
    /\ max_retries = 1
    /\ retry_backoff_base = 1
    /\ use_graphql_batch \in BOOLEAN
    /\ api_call_delay \in {0, 2}
    /\ metrics = APICallMetrics
    /\ RetryIdle
    /\ RunIdle
    /\ DetailIdle
    /\ StaleIdle
    /\ QuotaIdle
    /\ TeamIdle

Next ==
    \/ StartRun
    \/ BeginSearch
    \/ FuncReturns
    \/ FuncRaises
    \/ SearchReturned
    \/ SearchRaised
    \/ BeginDetails
    \/ BeginFetch
    \/ DetailReturned
    \/ BatchReturned
    \/ FetchRaised
    \/ FilterPhase

Spec == InitRun /\ [][Next]_vars

(***************************************************************************)
(* The filter on its own: every input list, metadata and tracked set.      *)
(***************************************************************************)
ReviewerLists == {<<>>, <<"carol">>, <<"carol", "Alice">>}

TeamLists ==
    {<<>>,
     <<GitHubTeamReviewRequest("core", NoneMembers)>>,
     <<GitHubTeamReviewRequest("core", ListMembers(<<>>))>>,
     <<GitHubTeamReviewRequest("core", ListMembers(<<"dave">>)),
       GitHubTeamReviewRequest("big", NoneMembers)>>,
     <<GitHubTeamReviewRequest("big", NoneMembers),
       GitHubTeamReviewRequest("core", ListMembers(<<"dave">>))>>,
     <<GitHubTeamReviewRequest("core", ListMembers(<<"dave">>)),
       GitHubTeamReviewRequest("ops", ListMembers(<<"carol", "bob">>))>>}

Tags == {"review:none", "review:required"}

\* the origin sets the discovery phase can build
OriginSets == (SUBSET Tags) \ {{}}

FilterInputs ==
    UNION {[1..n -> ReviewerLists \X TeamLists] : n \in 0..MaxFilterPRs}

FilterPRs(shape) ==
    [i \in 1..Len(shape) |-> PullRequest(<<"api">>, i, shape[i][1], shape[i][2])]

FilterKeys(n) == {<<<<"api">>, i>> : i \in 1..n}

InitFilter ==
    /\ pc = "filter"
    /\ team_usernames \in TeamChoices
    /\ \E shape \in FilterInputs :
         /\ all_prs = FilterPRs(shape)
         /\ \E keys \in SUBSET FilterKeys(Len(shape)) :
              pr_search_metadata \in [keys -> OriginSets]
    /\ filtered_prs = NoResult
    /\ TeamIdle
    /\ ConfigIdle
    /\ RetryIdle
    /\ RunIdle
    /\ DetailIdle
    /\ StaleIdle
    /\ QuotaIdle

SpecFilter == InitFilter /\ [][FilterPhase]_vars

(***************************************************************************)
(* The quota gate: check_rate_limit, _should_proceed, _wait_for_reset and  *)
(* the part of main (src/src/app.py) that calls them before                *)
(* fetch_team_prs.  The reset timestamp is in whole seconds; the clock     *)
(* datetime.now().timestamp() is a float and is counted in half seconds.   *)
(***************************************************************************)
\* stdout of `gh api rate_limit --jq .resources.core`: a JSON object holding
\* some of the fields, JSON that is no object (null), or text that is no JSON
RateData(fields, remaining, limit, reset) ==
    [json |-> TRUE, object |-> TRUE, fields |-> fields, remaining |-> remaining,
     limit |-> limit, reset |-> reset]

NullData == [json |-> TRUE, object |-> FALSE, fields |-> {}, remaining |-> 0,
             limit |-> 0, reset |-> 0]

NotJsonData == [json |-> FALSE, object |-> FALSE, fields |-> {}, remaining |-> 0,
                limit |-> 0, reset |-> 0]

QuotaLimit == 5000

\* max() that returns its second argument
MaxNoClamp(a, b) == b

Max(a, b) == IF a >= b THEN a ELSE b

\* int(x) for x = halves / 2: truncation towards zero
IntOfHalves(halves) == IF halves >= 0 THEN halves \div 2 ELSE -((-halves) \div 2)

\* check_rate_limit without its except clause for a failed probe call
CheckRateLimitUnguarded(outcome, clock2) ==
    IF outcome.kind # "ok" THEN Raised("CalledProcessError")
    ELSE LET rate_data == outcome.stdout IN
         IF ~rate_data.json THEN ReturnedNone
         ELSE IF ~rate_data.object THEN Raised("TypeError")
         ELSE IF ~(ProbeFields \subseteq rate_data.fields) THEN Raised("ValueError")
         ELSE LET remaining == Max(0, rate_data.remaining)
              IN Returned(RateLimitStatus(
                     remaining, rate_data.limit, rate_data.reset, remaining = 0,
                     IF remaining = 0
                     THEN Wait(Max(0, IntOfHalves(2 * rate_data.reset - clock2)))
                     ELSE NoWait))

\* check_rate_limit taking a missing field for an unreadable response
CheckRateLimitLenient(outcome, clock2) ==
    IF outcome.kind # "ok" THEN ReturnedNone
    ELSE LET rate_data == outcome.stdout IN
         IF ~rate_data.json \/ ~rate_data.object
                \/ ~(ProbeFields \subseteq rate_data.fields) THEN ReturnedNone
         ELSE LET remaining == Max(0, rate_data.remaining)
              IN Returned(RateLimitStatus(
                     remaining, rate_data.limit, rate_data.reset, remaining = 0,
                     IF remaining = 0
                     THEN Wait(Max(0, IntOfHalves(2 * rate_data.reset - clock2)))
                     ELSE NoWait))

\* check_rate_limit, given the outcome of the probe call and the clock read
\* after it
CheckRateLimit(outcome, clock2) ==
    IF outcome.kind # "ok" THEN ReturnedNone
    ELSE LET rate_data == outcome.stdout IN
         IF ~rate_data.json THEN ReturnedNone
         ELSE IF ~rate_data.object THEN Raised("TypeError")
         ELSE IF ~(ProbeFields \subseteq rate_data.fields) THEN Raised("ValueError")
         ELSE LET remaining == Max(0, rate_data.remaining)
                  reset_timestamp == rate_data.reset
                  wait_seconds ==
                      IF remaining = 0
                      THEN Wait(Max(0, IntOfHalves(2 * reset_timestamp - clock2)))
                      ELSE NoWait
              IN Returned(RateLimitStatus(remaining, rate_data.limit, reset_timestamp,
                                          remaining = 0, wait_seconds))

\* the loop of _wait_for_reset: one time.sleep(1) per second left
RECURSIVE Countdown(_, _)
Countdown(remaining, sleeps) ==
    IF remaining > 0 THEN Countdown(remaining - 1, sleeps + 1) ELSE sleeps

\* _wait_for_reset: the number of time.sleep(1) calls
WaitForReset(status) ==
    IF ~status.wait_seconds.set \/ status.wait_seconds.seconds <= 0 THEN 0
    ELSE Countdown(status.wait_seconds.seconds, 0)

ThresholdExclusive(wait_seconds, threshold_seconds) == wait_seconds < threshold_seconds

WithinThreshold(wait_seconds, threshold_seconds) == wait_seconds <= threshold_seconds

\* _should_proceed without the fail-fast branch
ShouldProceedAlways(status, threshold_seconds) ==
    IF ~status.is_exhausted THEN [result |-> "true", slept |-> 0]
    ELSE [result |-> "true", slept |-> WaitForReset(status)]

\* _should_proceed: what it returns and how long it slept
ShouldProceed(status, threshold_seconds) ==
    IF ~status.is_exhausted THEN [result |-> "true", slept |-> 0]
    ELSE IF ~status.wait_seconds.set \/ status.wait_seconds.seconds <= 0
    THEN [result |-> "true", slept |-> 0]
    ELSE IF WithinThreshold(status.wait_seconds.seconds, threshold_seconds)
    THEN [result |-> "true", slept |-> WaitForReset(status)]
    ELSE [result |-> "false", slept |-> 0]

\* what the probe can answer
QuotaOutputs ==
    {RateData(ProbeFields, remaining, QuotaLimit, reset) :
        remaining \in {-1, 0, 1}, reset \in 0..MaxResetAt}
    \cup {RateData(fields, 0, QuotaLimit, MaxResetAt) : fields \in SUBSET ProbeFields}
    \cup {NullData, NotJsonData}

QuotaOutcomes == {Ok(out) : out \in QuotaOutputs} \cup {Exit, Timeout}

\* the clock readings tried: 1.5 s and 2 s
Clocks == {3, 4}

\* one call of _should_proceed
ShouldProceedCall ==
    /\ pc = "proceed"
    /\ LET sp == ShouldProceed(check_result.status, rate_limit_wait_threshold)
       IN /\ proceed' = sp.result
          /\ slept' = sp.slept
    /\ pc' = "proceed done"
    /\ UNCHANGED <<rate_limit_wait_threshold, quota_probe, check_result, exit_code,
                   search_started, filterVars, teamVars, configVars, detailVars, staleVars, metrics, retryVars,
                   runVars>>

\* the statuses given to _should_proceed alone: every combination of the
\* fields it reads, consistent or not
StatusInputs ==
    {RateLimitStatus(remaining, QuotaLimit, MaxResetAt, is_exhausted, wait_seconds) :
        remaining \in {0, 1}, is_exhausted \in BOOLEAN,
        wait_seconds \in {NoWait} \cup {Wait(n) : n \in -1..MaxWait}}

InitProceed ==
    /\ pc = "proceed"
    /\ rate_limit_wait_threshold \in 1..MaxThreshold
    /\ quota_probe = NoProbe
    /\ check_result \in {Returned(status) : status \in StatusInputs}
    /\ proceed = "not called"
    /\ slept = 0
    /\ exit_code = -1
    /\ search_started = FALSE
    /\ FilterIdle
    /\ TeamIdle
    /\ ConfigIdle
    /\ RetryIdle
    /\ RunIdle
    /\ DetailIdle
    /\ StaleIdle

SpecProceed == InitProceed /\ [][ShouldProceedCall]_vars

(***************************************************************************)
(* _wait_for_reset step by step.  The local remaining is wait_seconds less *)
(* the time.sleep(1) calls done so far.                                    *)
(***************************************************************************)
\* a countdown that stops one second early
CountdownStopsEarly(remaining) == remaining > 1

\* while remaining > 0
CountdownGoesOn(remaining) == remaining > 0

\* the early return: wait_seconds is None or <= 0
NothingToWait(status) == ~status.wait_seconds.set \/ status.wait_seconds.seconds <= 0

\* time.sleep(1); remaining -= 1
WaitSecond ==
    /\ pc = "wait"
    /\ ~NothingToWait(check_result.status)
    /\ CountdownGoesOn(check_result.status.wait_seconds.seconds - slept)
    /\ slept' = slept + 1
    /\ UNCHANGED <<pc, rate_limit_wait_threshold, quota_probe, check_result, proceed,
                   exit_code, search_started, filterVars, teamVars, configVars, detailVars,
                   staleVars, metrics, retryVars, runVars>>

\* the function returns, at once or when the countdown is over
WaitReturns ==
    /\ pc = "wait"
    /\ \/ NothingToWait(check_result.status)
       \/ ~CountdownGoesOn(check_result.status.wait_seconds.seconds - slept)
    /\ pc' = "wait done"
    /\ UNCHANGED <<rate_limit_wait_threshold, quota_probe, check_result, proceed, slept,
                   exit_code, search_started, filterVars, teamVars, configVars, detailVars,
                   staleVars, metrics, retryVars, runVars>>

\* the statuses given to _wait_for_reset
WaitStatuses ==
    {RateLimitStatus(remaining, QuotaLimit, MaxResetAt, is_exhausted, wait_seconds) :
        remaining \in {0, 1}, is_exhausted \in BOOLEAN,
        wait_seconds \in {NoWait} \cup {Wait(n) : n \in -1..MaxCountdown}}

InitWait ==
    /\ pc = "wait"
    /\ rate_limit_wait_threshold = 1
    /\ quota_probe = NoProbe
    /\ check_result \in {Returned(status) : status \in WaitStatuses}
    /\ proceed = "not called"
    /\ slept = 0
    /\ exit_code = -1
    /\ search_started = FALSE
    /\ FilterIdle
    /\ TeamIdle
    /\ ConfigIdle
    /\ RetryIdle
    /\ RunIdle
    /\ DetailIdle
    /\ StaleIdle

NextWait == WaitSecond \/ WaitReturns

\* the function is sequential code and time.sleep(1) returns: a step that can
\* be taken is taken
SpecWait == InitWait /\ [][NextWait]_vars /\ WF_vars(NextWait)

\* main from the quota check to the call of fetch_team_prs: an exception
\* reaches the handler of main, which returns 1
MainGate ==
    /\ pc = "main"
    /\ \E outcome \in QuotaOutcomes, clock2 \in Clocks :
         LET r == CheckRateLimit(outcome, clock2)
             gated == r.raises = "none" /\ r.known /\ r.status.is_exhausted
             sp == ShouldProceed(r.status, rate_limit_wait_threshold)
         IN /\ quota_probe' = [outcome |-> outcome, clock2 |-> clock2]
            /\ check_result' = r
            /\ proceed' = IF gated THEN sp.result ELSE "not called"
            /\ slept' = IF gated THEN sp.slept ELSE 0
            /\ IF r.raises # "none" \/ (gated /\ sp.result = "false")
               THEN pc' = "exit" /\ exit_code' = 1
               ELSE pc' = "fetch" /\ UNCHANGED exit_code
    /\ UNCHANGED <<rate_limit_wait_threshold, search_started, filterVars, teamVars,
                   configVars, detailVars, staleVars, metrics, retryVars, runVars>>

\* main calls fetch_team_prs, which checks the quota again, drops the result
\* and goes to its first search
MainFetch ==
    /\ pc = "fetch"
    /\ \E second \in ProbeOutcomes :
         IF CheckRateLimitRaises(second)
         THEN pc' = "exit" /\ exit_code' = 1 /\ UNCHANGED search_started
         ELSE pc' = "searching" /\ search_started' = TRUE /\ UNCHANGED exit_code
    /\ UNCHANGED <<rate_limit_wait_threshold, quota_probe, check_result, proceed, slept,
                   filterVars, teamVars, configVars, detailVars, staleVars, metrics, retryVars, runVars>>

InitMain ==
    /\ pc = "main"
    /\ rate_limit_wait_threshold \in 1..MaxThreshold
    /\ quota_probe = NoProbe
    /\ check_result = NotChecked
    /\ proceed = "not called"
    /\ slept = 0
    /\ exit_code = -1
    /\ search_started = FALSE
    /\ team_usernames \in TeamChoices
    /\ pr_search_metadata = <<>>
    /\ all_prs = <<>>
    /\ filtered_prs = NoResult
    /\ TeamIdle
    /\ ConfigIdle
    /\ RetryIdle
    /\ RunIdle
    /\ DetailIdle
    /\ StaleIdle

NextMain == MainGate \/ MainFetch

SpecMain == InitMain /\ [][NextMain]_vars

(***************************************************************************)
(* StalePR.category.  staleness_days is a float; it is counted here in     *)
(* quarters of a business day, so 4 days are 16 and 11 days are 44.        *)
(***************************************************************************)
Days(n) == 4 * n

\* the property category of StalePR
Category(days) ==
    IF days >= Days(11) THEN "rotten"
    ELSE IF days >= Days(4) THEN "aging"
    ELSE "fresh"

\* stale_pr.category is read
ReadCategory ==
    /\ pc = "stale"
    /\ category' = Category(staleness_days)
    /\ pc' = "stale done"
    /\ UNCHANGED <<staleness_days, filterVars, teamVars, configVars, metrics, retryVars,
                   runVars, quotaVars, detailVars>>

\* a StalePR of every staleness
InitStale ==
    /\ pc = "stale"
    /\ staleness_days \in 0..MaxQuarterDays
    /\ category = "not read"
    /\ FilterIdle
    /\ TeamIdle
    /\ ConfigIdle
    /\ RetryIdle
    /\ RunIdle
    /\ QuotaIdle
    /\ DetailIdle

SpecStale == InitStale /\ [][ReadCategory]_vars

(***************************************************************************)
(* One call of a detail fetcher, _fetch_pr_details_batch_graphql or        *)
(* _fetch_pr_details, from the point where _retry_with_backoff returned    *)
(* the response or re-raised the error.                                    *)
(***************************************************************************)
\* the reviews submitted to a pull request, in submission order
Histories ==
    {<<>>,
     <<Review("carol", "APPROVED")>>,
     <<Review("carol", "APPROVED"), Review("carol", "CHANGES_REQUESTED")>>,
     <<Review("carol", "CHANGES_REQUESTED"), Review("carol", "APPROVED")>>,
     <<Review("carol", "APPROVED"), Review("carol", "APPROVED")>>,
     <<Review("carol", "APPROVED"), Review("dave", "APPROVED")>>,
     <<Review("dave", "APPROVED"), Review("carol", "APPROVED"), Review("dave", "COMMENTED")>>,
     <<Review("", "COMMENTED"), Review("carol", "APPROVED")>>,
     <<Review(NullAuthor, "COMMENTED")>>}

\* the reviewDecision values of a response; "" is what every other data of
\* DetailDatas carry
Decisions ==
    {AbsentDecision, NullDecision, "APPROVED", "CHANGES_REQUESTED", "REVIEW_REQUIRED"}

\* what the response can hold for one pull request: nothing, data that lack
\* a required key, a draft, and a pull request ready for review with any of
\* the histories
DetailDatas ==
    {PrData(FALSE, FALSE, FALSE, <<>>),
     PrData(TRUE, FALSE, FALSE, <<>>),
     Reviewed(PrData(TRUE, TRUE, TRUE, <<UserRequest("bob")>>),
              <<Review("carol", "APPROVED")>>)}
    \cup {Reviewed(PrData(TRUE, TRUE, FALSE, <<UserRequest("bob")>>), history) :
             history \in Histories}
    \cup {Decided(Reviewed(PrData(TRUE, TRUE, FALSE, <<UserRequest("bob")>>),
                           <<Review("carol", "APPROVED")>>), decision) :
             decision \in Decisions}

DetailNumbers == {7, 8}

\* the calls tried: a batch for one or two numbers, or a single gh pr view;
\* the call returns a response, JSON or not, or raises
DetailCalls ==
    {[path |-> path, repo |-> <<"acme", "api">>, pr_numbers |-> pr_numbers,
      outcome |-> outcome, json |-> json, datas |-> datas] :
        path \in {"batch"},
        pr_numbers \in {<<7>>, <<7, 8>>, <<8, 7>>},
        outcome \in {"ok"}, json \in {TRUE},
        datas \in [DetailNumbers -> DetailDatas]}
    \cup
    {[path |-> path, repo |-> <<"acme", "api">>, pr_numbers |-> pr_numbers,
      outcome |-> outcome, json |-> json, datas |-> datas] :
        path \in {"rest"},
        pr_numbers \in {<<7>>},
        outcome \in {"ok"}, json \in {TRUE},
        datas \in {[n \in DetailNumbers |-> d] : d \in {e \in DetailDatas : e.present}}}
    \cup
    {[path |-> path, repo |-> <<"acme", "api">>, pr_numbers |-> pr_numbers,
      outcome |-> outcome, json |-> FALSE,
      datas |-> [n \in DetailNumbers |-> PrData(FALSE, FALSE, FALSE, <<>>)]] :
        path \in {"batch", "rest"},
        pr_numbers \in {<<7>>, <<7, 8>>},
        outcome \in {"ok", "CalledProcessError", "TimeoutExpired"}}

\* _fetch_pr_details_batch_graphql after the call: the exception that leaves
\* it, the list it returns and the counters
FetchPrDetailsBatchGraphql(call, counters) ==
    IF call.outcome = "TimeoutExpired"
    THEN [raises |-> "TimeoutExpired", prs |-> <<>>, metrics |-> counters]
    ELSE IF call.outcome = "CalledProcessError"
    THEN [raises |-> "none", prs |-> <<>>,
          metrics |-> [counters EXCEPT !.failed_calls = @ + 1]]
    ELSE IF ~call.json
    THEN [raises |-> "none", prs |-> <<>>, metrics |-> counters]
    ELSE IF \E i \in 1..Len(call.pr_numbers) :
                LET pr_data == call.datas[call.pr_numbers[i]]
                IN pr_data.present /\ pr_data.complete
                      /\ RaisesAttributeError(pr_data.reviews)
    THEN [raises |-> "AttributeError", prs |-> <<>>, metrics |-> counters]
    ELSE [raises |-> "none",
          prs |-> BatchLoop(call.repo[2], call.pr_numbers, 1, call.datas,
                            [n \in DetailNumbers |-> NoTeamCall]),
          metrics |-> [counters EXCEPT
                          !.graphql_calls = @ + 1,
                          !.rest_detail_calls = @ + Len(call.pr_numbers)]]

\* _fetch_pr_details after the call, likewise
FetchPrDetailsRest(call, counters) ==
    IF call.outcome = "TimeoutExpired"
    THEN [raises |-> "TimeoutExpired", prs |-> <<>>, metrics |-> counters]
    ELSE IF call.outcome = "CalledProcessError"
    THEN [raises |-> "none", prs |-> <<>>, metrics |-> counters]
    ELSE [raises |-> "none",
          prs |-> FetchPrDetails(call.repo, call.pr_numbers[1],
                                 [json |-> call.json, data |-> call.datas[call.pr_numbers[1]]],
                                 NoTeamCall),
          metrics |-> counters]

\* the fetcher runs to its end
FetchDetailsCall ==
    /\ pc = "detail"
    /\ LET r == IF detail_call.path = "batch"
                THEN FetchPrDetailsBatchGraphql(detail_call, metrics)
                ELSE FetchPrDetailsRest(detail_call, metrics)
       IN /\ detail_result' = [raises |-> r.raises, prs |-> r.prs]
          /\ metrics' = r.metrics
    /\ pc' = "detail done"
    /\ UNCHANGED <<detail_call, filterVars, teamVars, configVars, retryVars, runVars,
                   quotaVars, staleVars>>

\* a fresh client and one call of a fetcher
InitDetails ==
    /\ pc = "detail"
    /\ detail_call \in DetailCalls
    /\ detail_result = NoDetailResult
    /\ FilterIdle
    /\ TeamIdle
    /\ ConfigIdle
    /\ RetryIdle
    /\ RunIdle
    /\ QuotaIdle
    /\ StaleIdle

SpecDetails == InitDetails /\ [][FetchDetailsCall]_vars

(***************************************************************************)
(* Properties of the membership filter.                                    *)
(***************************************************************************)
\* names that differ by letter case only
CaseClasses == {{"alice", "Alice"}, {"bob", "BOB"}, {"carol"}, {"dave"}}

SameName(a, b) == \E c \in CaseClasses : a \in c /\ b \in c

Tracked(u) == \E t \in team_usernames : SameName(u, t)

HasTrackedReviewer(pr) == \E i \in 1..Len(pr.reviewers) : Tracked(pr.reviewers[i])

HasUnknownGroup(pr) ==
    \E k \in 1..Len(pr.github_team_reviewers) :
        ~pr.github_team_reviewers[k].members.known

HasTrackedGroupMember(pr) ==
    \E k \in 1..Len(pr.github_team_reviewers) :
        LET m == pr.github_team_reviewers[k].members
        IN m.known /\ \E j \in 1..Len(m.list) : Tracked(m.list[j])

OriginOf(pr) == MetadataGet(pr_search_metadata, <<pr.repo_name, pr.number>>)

Retained(pr) == \E i \in 1..Len(filtered_prs) : filtered_prs[i] = pr

FilterDone == pc = "done"

\* the entries of a list of pull requests that stand for the identity k
EntriesFor(prs, k) ==
    Cardinality({i \in 1..Len(prs) :
                    prs[i].repo_name = ShortName(k[1]) /\ prs[i].number = k[2]})

RunDone == pc = "done" /\ usernames_left = <<>> /\ detail_requests # ZeroCounts

\* C1: in one run of fetch_team_prs no identity has its details requested
\* more than once, however many searches returned it; once the detail phase
\* is over every identity some search returned was requested exactly once, and
\* the returned list holds at most one entry for it.
C1_DetailsOncePerIdentity ==
    /\ \A k \in PRUniverse :
         /\ detail_requests[k] <= 1
         /\ EntriesFor(all_prs, k) <= 1
    /\ (pc \in {"filter", "done"} /\ review_status = "none" /\ usernames_left = <<>>
            /\ pr_keys # <<>>)
         => \A k \in PRUniverse : found[k] # {} => detail_requests[k] = 1
    /\ RunDone => \A k \in PRUniverse : EntriesFor(filtered_prs, k) <= 1

\* a finished run with two tracked usernames in which both categories of
\* search returned one identity, requested once and returned once
C1_Witness ==
    /\ RunDone
    /\ Cardinality(team_usernames) = 2
    /\ \E k \in PRUniverse :
         /\ found[k] = {"none", "required"}
         /\ detail_requests[k] = 1
         /\ EntriesFor(filtered_prs, k) = 1

\* C2: in a full run, a pull request only the review-required searches
\* returned, with no tracked individual reviewer and no group request, is not
\* in the returned list.
C2_ExternalRequiredDropped ==
    RunDone =>
        \A k \in PRUniverse : \A i \in 1..Len(all_prs) :
            (/\ all_prs[i].repo_name = ShortName(k[1])
             /\ all_prs[i].number = k[2]
             /\ found[k] = {"required"}
             /\ ~HasTrackedReviewer(all_prs[i])
             /\ all_prs[i].github_team_reviewers = <<>>)
                => ~Retained(all_prs[i])

\* C3: a PR whose origin contains the review-required tag is retained iff,
\* comparing names case-insensitively, an individual reviewer is tracked, or a
\* resolved member of one of its groups is tracked, or one of its groups has
\* unknown members; with no reviewer and no group it is dropped.
C3_RequiredRetainedIff ==
    FilterDone =>
        \A i \in 1..Len(all_prs) :
            LET pr == all_prs[i] IN
            "review:required" \in OriginOf(pr) =>
                /\ Retained(pr) <=>
                      \/ HasTrackedReviewer(pr)
                      \/ HasTrackedGroupMember(pr)
                      \/ HasUnknownGroup(pr)
                /\ (pr.reviewers = <<>> /\ pr.github_team_reviewers = <<>>)
                      => ~Retained(pr)

\* a review-required PR kept only through a name that differs in case, next to
\* a review-required PR that is dropped
C3_Witness ==
    /\ FilterDone
    /\ team_usernames = {"alice", "bob"}
    /\ \E i, j \in 1..Len(all_prs) :
         /\ "review:required" \in OriginOf(all_prs[i])
         /\ all_prs[i].reviewers = <<"carol", "Alice">>
         /\ all_prs[i].github_team_reviewers = <<>>
         /\ Retained(all_prs[i])
         /\ "review:required" \in OriginOf(all_prs[j])
         /\ all_prs[j].reviewers = <<>>
         /\ all_prs[j].github_team_reviewers = <<>>
         /\ ~Retained(all_prs[j])

\* C4: a PR whose origin is the review-none tag only is never dropped by the
\* filter, whatever its reviewers and group review requests are.
C4_ReviewNoneNeverDropped ==
    FilterDone =>
        \A i \in 1..Len(all_prs) :
            OriginOf(all_prs[i]) = {"review:none"} => Retained(all_prs[i])

\* a review-none PR with an untracked reviewer and an empty group, kept
C4_Witness ==
    /\ FilterDone
    /\ \E i \in 1..Len(all_prs) :
         /\ OriginOf(all_prs[i]) = {"review:none"}
         /\ ~HasTrackedReviewer(all_prs[i])
         /\ all_prs[i].reviewers # <<>>
         /\ all_prs[i].github_team_reviewers # <<>>
         /\ ~HasUnknownGroup(all_prs[i])
         /\ ~HasTrackedGroupMember(all_prs[i])
         /\ Retained(all_prs[i])

\* C5: a review-required PR with no tracked individual reviewer is retained
\* whenever one of its groups has unknown members, wherever that group stands
\* in the list and whatever the members of its other groups are.
C5_FailSafeInclusion ==
    FilterDone =>
        \A i \in 1..Len(all_prs) :
            LET pr == all_prs[i] IN
            /\ "review:required" \in OriginOf(pr)
            /\ ~HasTrackedReviewer(pr)
            /\ HasUnknownGroup(pr)
            => Retained(pr)

\* the unknown group stands second, behind a resolved group of untracked members
C5_Witness ==
    /\ FilterDone
    /\ \E i \in 1..Len(all_prs) :
         LET pr == all_prs[i] IN
         /\ "review:required" \in OriginOf(pr)
         /\ ~HasTrackedReviewer(pr)
         /\ Len(pr.github_team_reviewers) = 2
         /\ pr.github_team_reviewers[1].members = ListMembers(<<"dave">>)
         /\ ~pr.github_team_reviewers[2].members.known
         /\ Retained(pr)

(***************************************************************************)
(* Properties of team expansion.                                           *)
(***************************************************************************)
TeamDone == pc = "team done"

CountFailed ==
    team_input.count.kind \in {"exit", "timeout"}
        \/ (team_input.count.kind = "ok" /\ ~team_input.count.stdout.digits)

ListingFailed ==
    /\ "list" \in {team_calls[i] : i \in 1..Len(team_calls)}
    /\ team_input.listing.kind \in {"exit", "timeout"}

\* C6: team expansion returns the unknown sentinel whenever the member-count
\* call or the member-listing call fails, and never an empty member list.
C6_FailureGivesUnknown ==
    TeamDone /\ (CountFailed \/ ListingFailed) => team_result = NoneMembers

\* C7: when the member count exceeds the size cap, team expansion returns the
\* unknown sentinel, never an empty list, and issues no member-listing call.
C7_OversizedGivesUnknown ==
    /\ TeamDone
    /\ team_input.count.kind = "ok"
    /\ team_input.count.stdout.digits
    /\ team_input.count.stdout.n > team_max_size
    => /\ team_result = NoneMembers
       /\ team_result # ListMembers(<<>>)
       /\ team_calls = <<"count">>

\* a team of one member more than the cap, whose listing would have succeeded
C7_Witness ==
    /\ TeamDone
    /\ team_input.count = Ok(Digits(team_max_size + 1))
    /\ team_input.listing.kind = "ok"
    /\ team_result = NoneMembers
    /\ team_calls = <<"count">>

(***************************************************************************)
(* Properties of _retry_with_backoff.                                      *)
(***************************************************************************)
LastError == errors[Len(errors)]

\* C8: with max_retries = N the wrapped call is invoked at most N + 1 times,
\* whatever its failures are; when its first failure is classified network it
\* is invoked exactly once.
C8_AtMostNPlusOneAttempts ==
    /\ func_calls <= max_retries + 1
    /\ (errors # <<>> /\ ClassifyError(errors[1]) = "network")
          => (func_calls = 1 /\ rpc = "raised")

\* every one of the N + 1 attempts, N >= 2, failed with a rate limit
C8_Witness ==
    /\ pc = "retry"
    /\ max_retries >= 2
    /\ rpc = "raised"
    /\ func_calls = max_retries + 1
    /\ Len(errors) = max_retries + 1
    /\ \A i \in 1..Len(errors) :
          ClassifyError(errors[i]) \in {"primary_rate_limit", "secondary_rate_limit"}

\* C9: an error classified network or other is re-raised at once, with no wait
\* and no retry after it, and the failure counter is incremented.
C9_NoRetryCountsFailure ==
    (pc = "retry" /\ rpc = "raised" /\ errors # <<>>
        /\ ClassifyError(LastError) \in {"network", "other"})
    => /\ func_calls = Len(errors)
       /\ Len(waits) = Len(errors) - 1
       /\ metrics.failed_calls = 1

\* C10: the wait before retry number k (attempt k - 1) is the number of
\* seconds of the Retry-After directive of the error's text, for every value;
\* without a directive it is 60 * 2^attempt for a secondary rate limit and
\* backoff_base * 2^attempt for a primary one.
C10_WaitTimes ==
    pc = "retry" =>
        \A k \in 1..Len(waits) :
            LET directive == ParseRetryAfter(errors[k].stderr)
            IN waits[k] =
                 IF directive.found THEN directive.value
                 ELSE IF ClassifyError(errors[k]) = "secondary_rate_limit"
                      THEN 60 * 2^(k - 1)
                      ELSE retry_backoff_base * 2^(k - 1)


(***************************************************************************)
(* The error classifier, on the errors _retry_with_backoff met.            *)
(***************************************************************************)
ErrorKinds == {"network", "secondary_rate_limit", "primary_rate_limit", "other"}

NetworkWording(error) ==
    /\ error.type = "CalledProcessError"
    /\ \E term \in NetworkTerms : Contains(LowerText(error.stderr), Words(term))

IndicatesNetwork(error) == error.type = "TimeoutExpired" \/ NetworkWording(error)

SecondaryWording(error) ==
    /\ error.type = "CalledProcessError"
    /\ Contains(error.stderr, <<Num(403)>>)
    /\ Contains(LowerText(error.stderr), Words(<<"secondary", "rate", "limit">>))

RateLimitWording(error) ==
    /\ error.type = "CalledProcessError"
    /\ \/ Contains(error.stderr, <<Num(429)>>)
       \/ Contains(LowerText(error.stderr), Words(<<"rate", "limit">>))

\* C11: the network rule comes first: an error that is a timeout, or whose
\* text has timeout, connection or DNS wording, is classified network
\* whatever rate-limit wording the text also has, so it is the last error of
\* the call and is raised without a retry.
C11_NetworkRuleFirst ==
    pc = "retry" =>
        \A k \in 1..Len(errors) :
            IndicatesNetwork(errors[k]) =>
                /\ ClassifyError(errors[k]) = "network"
                /\ k = Len(errors)
                /\ rpc = "raised"

\* C12: every error gets exactly one of the four kinds: a timeout exception
\* or text with network wording only gives network; text with 403 and
\* "secondary rate limit" gives secondary_rate_limit; other text with 429 or
\* "rate limit" gives primary_rate_limit; text with none of these (404, 500,
\* a plain 403) gives other.
C12_ClassifierKinds ==
    pc = "retry" =>
        \A k \in 1..Len(errors) :
            LET error == errors[k]
                kind == ClassifyError(error)
            IN /\ kind \in ErrorKinds
               /\ error.type = "TimeoutExpired" => kind = "network"
               /\ SecondaryWording(error) => kind = "secondary_rate_limit"
               /\ (RateLimitWording(error) /\ ~SecondaryWording(error))
                     => kind = "primary_rate_limit"
               /\ (NetworkWording(error) /\ ~RateLimitWording(error)) => kind = "network"
               /\ (error.type = "CalledProcessError" /\ ~NetworkWording(error)
                      /\ ~RateLimitWording(error)) => kind = "other"
               /\ error \in {CalledProcessError(<<Word("HTTP"), Num(404)>>),
                             CalledProcessError(<<Word("HTTP"), Num(500)>>),
                             CalledProcessError(<<Word("HTTP"), Num(403), Word("Forbidden")>>)}
                     => kind = "other"

\* one call met a secondary limit, then a primary limit, then a plain 403
C12_Witness ==
    /\ pc = "retry"
    /\ rpc = "raised"
    /\ Len(errors) = 3
    /\ SecondaryWording(errors[1])
    /\ waits[1] = SecondaryBase
    /\ RateLimitWording(errors[2]) /\ ~SecondaryWording(errors[2])
    /\ errors[3] = CalledProcessError(<<Word("HTTP"), Num(403), Word("Forbidden")>>)


(***************************************************************************)
(* The quota gate.                                                         *)
(***************************************************************************)
ProceedDone == pc = "proceed done"

\* C13: _should_proceed returns true without sleeping when the status is not
\* exhausted or its wait_seconds is None or <= 0; for an exhausted status it
\* returns false without sleeping when wait_seconds > threshold, and when
\* 0 < wait_seconds <= threshold it sleeps wait_seconds seconds and returns
\* true.
C13_ShouldProceedCases ==
    ProceedDone =>
        LET status == check_result.status
            wait == status.wait_seconds
            none == ~status.is_exhausted \/ ~wait.set \/ wait.seconds <= 0
        IN /\ none => (proceed = "true" /\ slept = 0)
           /\ (~none /\ wait.seconds > rate_limit_wait_threshold)
                 => (proceed = "false" /\ slept = 0)
           /\ (~none /\ wait.seconds <= rate_limit_wait_threshold)
                 => (proceed = "true" /\ slept = wait.seconds)

\* the wait equals the threshold: the call slept that long and returned true
C13_Witness ==
    /\ ProceedDone
    /\ check_result.status.is_exhausted
    /\ check_result.status.wait_seconds = Wait(rate_limit_wait_threshold)
    /\ slept = rate_limit_wait_threshold
    /\ proceed = "true"

\* the probe answered with all three fields
CompleteAnswer ==
    /\ quota_probe.outcome.kind = "ok"
    /\ quota_probe.outcome.stdout.json
    /\ quota_probe.outcome.stdout.object
    /\ quota_probe.outcome.stdout.fields = ProbeFields

\* the probe answered JSON in which one of the three fields is missing
IncompleteAnswer ==
    /\ quota_probe.outcome.kind = "ok"
    /\ quota_probe.outcome.stdout.json
    /\ ~quota_probe.outcome.stdout.object
          \/ quota_probe.outcome.stdout.fields # ProbeFields

\* whole seconds from the clock reading to the reported reset
SecondsToReset ==
    IntOfHalves(2 * quota_probe.outcome.stdout.reset - quota_probe.clock2)

ExhaustedBeyondThreshold ==
    /\ CompleteAnswer
    /\ quota_probe.outcome.stdout.remaining = 0
    /\ SecondsToReset > rate_limit_wait_threshold

\* C14: when the probe reports zero remaining calls and the seconds to the
\* reset exceed the wait threshold, main returns a non-zero exit code without
\* waiting, and no search is ever started in that run.
C14_ExhaustedAborts ==
    (pc # "main" /\ ExhaustedBeyondThreshold)
        => (pc = "exit" /\ exit_code = 1 /\ ~search_started /\ slept = 0)

C14_Witness ==
    /\ pc = "exit"
    /\ ExhaustedBeyondThreshold
    /\ proceed = "false"
    /\ exit_code = 1

\* C15, as stated: check_rate_limit never raises.
C15_NeverRaises == pc # "main" => check_result.raises = "none"

\* C15, amended: check_rate_limit raises exactly when the probe answered JSON
\* that lacks one of remaining, limit and reset; for every other outcome it
\* returns a RateLimitStatus or None.
C15_RaisesOnlyOnMissingField ==
    pc # "main" =>
        /\ check_result.raises # "none" <=> IncompleteAnswer
        /\ ~IncompleteAnswer => (check_result.known \/ check_result = ReturnedNone)

\* the probe timed out: None is returned and main goes on to the searches
C15_Witness ==
    /\ pc = "searching"
    /\ quota_probe.outcome.kind = "timeout"
    /\ check_result = ReturnedNone
    /\ search_started

\* C16: an answer that lacks one of remaining, limit and reset makes
\* check_rate_limit raise, which ends main with exit code 1; a probe that
\* exits non-zero or times out gives None and nothing is raised.
C16_MissingFieldRaises ==
    pc # "main" =>
        /\ IncompleteAnswer
              => (check_result.raises \in {"ValueError", "TypeError"}
                    /\ pc = "exit" /\ exit_code = 1)
        /\ quota_probe.outcome.kind \in {"exit", "timeout"}
              => (check_result = ReturnedNone /\ proceed = "not called")

\* the answer holds limit only
C16_Witness ==
    /\ pc = "exit"
    /\ quota_probe.outcome.kind = "ok"
    /\ quota_probe.outcome.stdout.fields = {"limit"}
    /\ check_result.raises = "ValueError"

\* C17: a returned RateLimitStatus has remaining >= 0, a negative reported
\* value being clamped to 0; is_exhausted iff remaining = 0; wait_seconds set
\* iff is_exhausted; and wait_seconds >= 0, 0 when the reset is not in the
\* future.
C17_StatusInvariants ==
    check_result.known =>
        LET status == check_result.status
            reported == quota_probe.outcome.stdout
        IN /\ status.remaining >= 0
           /\ reported.remaining < 0 => status.remaining = 0
           /\ reported.remaining >= 0 => status.remaining = reported.remaining
           /\ status.is_exhausted <=> status.remaining = 0
           /\ status.wait_seconds.set <=> status.is_exhausted
           /\ status.wait_seconds.set => status.wait_seconds.seconds >= 0
           /\ (status.is_exhausted /\ 2 * reported.reset <= quota_probe.clock2)
                 => status.wait_seconds = Wait(0)

\* a negative remaining with the reset already past
C17_Witness ==
    /\ check_result.known
    /\ quota_probe.outcome.stdout.remaining < 0
    /\ 2 * quota_probe.outcome.stdout.reset < quota_probe.clock2
    /\ check_result.status.remaining = 0
    /\ check_result.status.wait_seconds = Wait(0)


(***************************************************************************)
(* Failures inside a run of fetch_team_prs.                                *)
(***************************************************************************)
\* a search call failed for a reason other than rate limiting
SearchFailed ==
    /\ pc = "search"
    /\ rpc = "raised"
    /\ ClassifyError(errors[Len(errors)]) \in {"network", "other"}

\* the run was left by an exception while the search loop was under way
RaisedInSearch == pc = "raised" /\ usernames_left # <<>>

\* C18: when a search call fails for a reason other than rate limiting,
\* fetch_team_prs raises: the next step leaves the run with an exception, and
\* a run left during the searches has issued no detail request, built no
\* pull request and returned no list.
C18_SearchFailureAborts ==
    /\ [][SearchFailed => (pc' = "raised" /\ raised' # "none")]_vars
    /\ [](RaisedInSearch =>
            (detail_requests = ZeroCounts /\ all_prs = <<>> /\ filtered_prs = NoResult))

\* a search timed out after earlier searches had found pull requests
C18_Witness ==
    /\ RaisedInSearch
    /\ raised = "TimeoutExpired"
    /\ pr_keys # <<>>
    /\ detail_requests = ZeroCounts

\* C19: a failing detail fetch does not make fetch_team_prs raise: a run that
\* has issued a detail request is never left by an exception.
C19_DetailFailureTolerated == pc = "raised" => detail_requests = ZeroCounts

\* C20: with batch fetching enabled, after the batch query of a repository
\* failed the pull requests of that repository are fetched one by one, so
\* some discovered identity has its details requested a second time.
C20_BatchFailureFallsBack ==
    (pc = "done" /\ use_graphql_batch /\ metrics.failed_calls > 0)
        => \E k \in PRUniverse : found[k] # {} /\ detail_requests[k] >= 2


(***************************************************************************)
(* Searches, origin metadata and counters of a run.                        *)
(***************************************************************************)
RECURSIVE SumOver(_, _, _)
SumOver(f, order, i) == IF i > Len(order) THEN 0 ELSE f[order[i]] + SumOver(f, order, i + 1)

\* the elements of a set of usernames in some order
SetToSeq(S) == CHOOSE order \in [1..Cardinality(S) -> S] : {order[i] : i \in 1..Cardinality(S)} = S

\* the searches issued so far in the run
SearchesIssued ==
    SumOver([u \in DOMAIN searches |-> Len(searches[u])],
            SetToSeq(DOMAIN searches), 1)

\* the search loop ended without a failure
DiscoveryOver ==
    \/ pc \in {"details", "fetch", "filter", "done"}
    \/ pc = "raised" /\ usernames_left = <<>> /\ searches # NoSearches

\* C23: the search-call counter equals the number of search calls issued in
\* the run.
C23_SearchCallsCounted == metrics.search_calls = SearchesIssued

\* C26: for every tracked username the searches issued are the review-none
\* search, then the review-required search and no other; when the search loop
\* ended without a failure both were issued for every tracked username, twice
\* the number of usernames in all.
C26_TwoSearchesPerUsername ==
    /\ \A u \in DOMAIN searches :
         /\ searches[u] \in {<<>>, <<"none">>, <<"none", "required">>}
         /\ u \notin team_usernames => searches[u] = <<>>
    /\ DiscoveryOver =>
         /\ \A u \in team_usernames : searches[u] = <<"none", "required">>
         /\ SearchesIssued = 2 * Cardinality(team_usernames)

\* a finished run with two tracked usernames and four searches
C26_Witness ==
    /\ pc = "done"
    /\ Cardinality(team_usernames) = 2
    /\ SearchesIssued = 4

\* C27: at the end of discovery the keys of the origin metadata are the
\* discovered identities, and the origin set of an identity holds the tag of
\* a category iff some search of that category returned the identity.
C27_OriginMetadata ==
    pc = "details" =>
        /\ DOMAIN pr_search_metadata = {pr_keys[i] : i \in 1..Len(pr_keys)}
        /\ DOMAIN pr_search_metadata = {k \in PRUniverse : found[k] # {}}
        /\ \A k \in DOMAIN pr_search_metadata :
             /\ "review:none" \in pr_search_metadata[k] <=> "none" \in found[k]
             /\ "review:required" \in pr_search_metadata[k] <=> "required" \in found[k]
             /\ pr_search_metadata[k] \subseteq {"review:none", "review:required"}

\* discovery with two tracked usernames ended with an identity that searches
\* of both categories returned, and one that only one category returned
C27_Witness ==
    /\ pc = "details"
    /\ Cardinality(team_usernames) = 2
    /\ \E k \in DOMAIN pr_search_metadata :
         found[k] = {"none", "required"}
            /\ pr_search_metadata[k] = {"review:none", "review:required"}
    /\ \E k \in DOMAIN pr_search_metadata : pr_search_metadata[k] = {"review:required"}

\* the detail requests issued so far in the run
DetailRequestsIssued == SumOver(detail_requests, KeyOrder, 1)

C28_CategoryThresholds ==
    pc = "stale done" =>
        category = IF staleness_days < Days(4) THEN "fresh"
                   ELSE IF staleness_days < Days(8) THEN "aging"
                   ELSE "rotten"


(***************************************************************************)
(* The detail fetchers.                                                    *)
(***************************************************************************)
DetailDone == pc = "detail done"

\* the batch query returned a JSON response
BatchAnswered ==
    DetailDone /\ detail_call.path = "batch" /\ detail_call.outcome = "ok" /\ detail_call.json

\* the numbers of the pull requests returned
ReturnedNumbers == [i \in 1..Len(detail_result.prs) |-> detail_result.prs[i].number]

\* the response holds data with every required key for the number
HasData(n) == detail_call.datas[n].present /\ detail_call.datas[n].complete

\* C21: when the batch response holds data for a subset of the requested
\* numbers only, the batch fetcher returns, and its result holds exactly the
\* pull requests that have data, in request order.
C21_BatchSubsetInOrder ==
    BatchAnswered =>
        /\ detail_result.raises = "none"
        /\ ReturnedNumbers = SelectSeq(detail_call.pr_numbers, HasData)

\* C22: no pull request a detail fetcher returns is a draft according to the
\* data fetched for it, on the batch path as on the per-PR path; ready_at is
\* a time only for a pull request that is no draft.
C22_NoDraftReturned ==
    DetailDone =>
        \A i \in 1..Len(detail_result.prs) :
            LET pr == detail_result.prs[i]
            IN /\ ~detail_call.datas[pr.number].isDraft
               /\ pr.ready_at # "None" => ~detail_call.datas[pr.number].isDraft

\* C24: every batch detail call, successful or not, adds one to the
\* batch-call counter and the number of requested pull requests to the
\* counter of per-PR calls avoided.
C24_BatchCallCounted ==
    (DetailDone /\ detail_call.path = "batch") =>
        /\ metrics.graphql_calls = 1
        /\ metrics.rest_detail_calls = Len(detail_call.pr_numbers)

\* the reviewers, by login, whose last review in the history is an approval
ApprovingReviewers(history) ==
    {author \in {history[i].author : i \in 1..Len(history)} \ {""} :
        \E i \in 1..Len(history) :
            /\ history[i].author = author
            /\ history[i].state = "APPROVED"
            /\ \A j \in (i + 1)..Len(history) : history[j].author # author}

\* C25: the approval count of a fetched pull request is the number of
\* distinct reviewers whose most recent review is APPROVED, on both paths.
C25_ApprovalsLatestPerReviewer ==
    DetailDone =>
        \A i \in 1..Len(detail_result.prs) :
            LET pr == detail_result.prs[i]
            IN pr.current_approvals
                  = Cardinality(ApprovingReviewers(detail_call.datas[pr.number].reviews))

\* a batch returned a pull request whose one reviewer approved and then
\* requested changes, counted 0, and one approved twice by the same reviewer,
\* counted 1
C25_Witness ==
    /\ BatchAnswered
    /\ Len(detail_result.prs) = 2
    /\ \E i, j \in 1..2 :
         /\ detail_call.datas[detail_result.prs[i].number].reviews
               = <<Review("carol", "APPROVED"), Review("carol", "CHANGES_REQUESTED")>>
         /\ detail_result.prs[i].current_approvals = 0
         /\ detail_call.datas[detail_result.prs[j].number].reviews
               = <<Review("carol", "APPROVED"), Review("carol", "APPROVED")>>
         /\ detail_result.prs[j].current_approvals = 1


(***************************************************************************)
(* Counters and termination of _retry_with_backoff.                        *)
(***************************************************************************)
\* C31: the retry counter grows by one with every retry wait: it equals the
\* number of waits performed; a call that returns after k failed attempts
\* (k = 0 at the first attempt) has waited k times, counted k retries and
\* left the failure counter as it was.
C31_RetryCountedPerWait ==
    pc = "retry" =>
        /\ metrics.retry_attempts = Len(waits)
        /\ rpc = "returned" =>
             /\ Len(errors) = func_calls - 1
             /\ Len(waits) = Len(errors)
             /\ metrics.retry_attempts = Len(errors)
             /\ metrics.failed_calls = 0

\* the call returned at its third attempt, after two waits and two counted
\* retries
C31_Witness ==
    /\ pc = "retry"
    /\ rpc = "returned"
    /\ func_calls = 3
    /\ Len(waits) = 2
    /\ metrics.retry_attempts = 2
    /\ metrics.failed_calls = 0


RetryLeft == rpc \in {"returned", "raised"}

\* C39: _retry_with_backoff terminates for every max_retries >= 0 and every
\* sequence of outcomes of func(): every pass of the except block either
\* leaves the function or waits and moves on to the next attempt, and in the
\* end the function has returned the result or raised the last error.
C39_RetryTerminates ==
    /\ [][Len(errors') > Len(errors)
             => \/ rpc' = "raised"
                \/ /\ rpc' = "call"
                   /\ Len(waits') = Len(waits) + 1
                   /\ attempt' = attempt + 1
                   /\ attempt' <= max_retries]_vars
    /\ [][rpc = "call" /\ rpc' = "returned" => func_calls' = func_calls + 1 /\ errors' = errors]_vars
    /\ <>RetryLeft

\* with max_retries = 2 every attempt failed with a rate limit: the function
\* waited twice and raised the third error
C39_Witness ==
    /\ pc = "retry"
    /\ max_retries = 2
    /\ rpc = "raised"
    /\ Len(waits) = 2
    /\ Len(errors) = 3
    /\ metrics.failed_calls = 1


(***************************************************************************)
(* The frame of the membership filter.                                     *)
(***************************************************************************)
\* s is t with some of its entries left out
IsSubList(s, t) ==
    \E at \in [1..Len(s) -> 1..Len(t)] :
        /\ \A i \in 1..Len(s) : s[i] = t[at[i]]
        /\ \A i, j \in 1..Len(s) : i < j => at[i] < at[j]

\* C40: the list the filter returns is a sub-list of its input in the same
\* relative order, so no pull request is added, duplicated or modified, and
\* the call leaves the input list and the origin metadata as they were.
C40_FilterSubList ==
    [][pc = "filter" =>
          /\ IsSubList(filtered_prs', all_prs)
          /\ all_prs' = all_prs
          /\ pr_search_metadata' = pr_search_metadata
          /\ team_usernames' = team_usernames]_vars

\* of two pull requests the filter kept both, in their order
C40_Witness ==
    /\ pc = "done"
    /\ Len(all_prs) = 2
    /\ filtered_prs = all_prs
    /\ \E k \in DOMAIN pr_search_metadata : "review:required" \in pr_search_metadata[k]


(***************************************************************************)
(* Team expansion within the size cap.                                     *)
(***************************************************************************)
\* the count call gave a number within the cap and the listing call succeeded
BothCallsSucceeded ==
    /\ TeamDone
    /\ team_input.count.kind = "ok"
    /\ team_input.count.stdout.digits
    /\ team_input.count.stdout.n <= team_max_size
    /\ team_input.listing.kind = "ok"

\* the filter's verdict on a review-required pull request whose only request
\* is a team with the members given
TeamAloneKept(members, usernames) ==
    KeepPR(PullRequest(<<"api">>, 1, <<>>, <<GitHubTeamReviewRequest("core", members)>>),
           (<<<<"api">>, 1>> :> {"review:required"}), LowerSet(usernames))

\* C34: with a member count within the cap and both calls successful, the
\* count query is issued before the listing query and the usernames listed
\* are returned; an empty listing gives the empty list, which is not the
\* unknown sentinel and, unlike it, does not pass the membership filter.
C34_ExpansionWithinCap ==
    BothCallsSucceeded =>
        /\ team_calls = <<"count", "list">>
        /\ team_result.known
        /\ team_result.list = SelectSeq(team_input.listing.stdout, LAMBDA line : line # "")
        /\ team_input.listing.stdout = <<>> =>
             /\ team_result = ListMembers(<<>>)
             /\ team_result # NoneMembers
             /\ \A usernames \in TeamChoices :
                  /\ ~TeamAloneKept(team_result, usernames)
                  /\ TeamAloneKept(NoneMembers, usernames)

\* a team within the cap whose listing succeeded and is empty
C34_Witness ==
    /\ BothCallsSucceeded
    /\ team_input.listing.stdout = <<>>
    /\ team_result = ListMembers(<<>>)
    /\ team_calls = <<"count", "list">>


(***************************************************************************)
(* The delay between the searches.                                         *)
(***************************************************************************)
\* the searches that have returned
SearchesReturned == SearchesIssued - (IF rpc = "idle" THEN 0 ELSE 1)

\* C35: during discovery one blocking wait of api_call_delay seconds follows
\* every search that returned, so one lies between every two consecutive
\* searches, when the delay is positive; none is performed when it is 0; the
\* waits of the retry backoff are not among them.
C35_DelayBetweenSearches ==
    pc = "search" =>
        /\ api_call_delay = 0 => delay_sleeps = <<>>
        /\ api_call_delay > 0 =>
             /\ Len(delay_sleeps) = SearchesReturned
             /\ \A i \in 1..Len(delay_sleeps) : delay_sleeps[i] = api_call_delay

\* the third search is about to be issued after two delays of two seconds,
\* one retry wait having happened on the way
C35_Witness ==
    /\ pc = "search"
    /\ rpc = "idle"
    /\ api_call_delay = 2
    /\ SearchesIssued = 2
    /\ delay_sleeps = <<2, 2>>
    /\ metrics.retry_attempts = 1


(***************************************************************************)
(* The detail phase without batch fetching.                                *)
(***************************************************************************)
\* the detail phase ran to its end
DetailPhaseOver == pc \in {"filter", "done"} /\ usernames_left = <<>> /\ searches # NoSearches

\* C33: with batch fetching disabled no batch query is issued: every detail
\* fetch asks for one identity and the batch counter stays 0; and once the
\* detail phase is over, one per-PR call, its retries not counted, was issued
\* for each discovered identity and none for any other.
C33_PerPRWhenBatchDisabled ==
    ~use_graphql_batch =>
        /\ \A i \in 1..Len(fetch_left) : fetch_left[i] \in PRUniverse
        /\ metrics.graphql_calls = 0
        /\ \A k \in PRUniverse : detail_requests[k] <= 1
        /\ DetailPhaseOver =>
             /\ \A k \in PRUniverse : detail_requests[k] = IF found[k] # {} THEN 1 ELSE 0
             /\ DetailRequestsIssued = Len(pr_keys)

\* a run without batch fetching ended after two per-PR calls for the two
\* identities discovered, one of them retried after a rate limit
C33_Witness ==
    /\ pc = "done"
    /\ ~use_graphql_batch
    /\ Len(pr_keys) = 2
    /\ DetailRequestsIssued = 2
    /\ metrics.retry_attempts = 1
    /\ Len(all_prs) >= 1


(***************************************************************************)
(* The order of the phases of a run.                                       *)
(***************************************************************************)
\* the membership filter has run: it is the last step of fetch_team_prs
FilterHasRun == pc = "done"

\* C32: the phases come in the order quota gate, discovery searches,
\* membership filter, detail fetch: no search is issued before the quota
\* check, and no detail fetch before all searches ended and the membership
\* filter ran.
C32_PhaseOrder ==
    /\ SearchesIssued > 0 => pc # "start"
    /\ DetailRequestsIssued > 0 => usernames_left = <<>>
    /\ DetailRequestsIssued > 0 => FilterHasRun


(***************************************************************************)
(* The counters behind the success rate.                                   *)
(***************************************************************************)
\* total_calls of APICallMetrics.success_rate
TotalCalls == metrics.search_calls + metrics.graphql_calls + metrics.rest_detail_calls

\* C38: at every point of a run the failure counter does not exceed the sum
\* of the search-call, batch-call and per-PR-call counters, so that the
\* number of successful calls the success rate is computed from is never
\* negative.
C38_FailuresWithinCalls ==
    /\ metrics.failed_calls <= TotalCalls
    /\ TotalCalls - metrics.failed_calls >= 0


(***************************************************************************)
(* The countdown of _wait_for_reset.                                       *)
(***************************************************************************)
WaitDone == pc = "wait done"

\* C37: for a status with wait_seconds = w > 0 the auto-wait performs exactly
\* w one-second waits and then returns; with wait_seconds null or <= 0 it
\* returns without a wait; in every case it returns.
C37_WaitTerminates ==
    /\ [](WaitDone =>
            /\ slept = IF NothingToWait(check_result.status) THEN 0
                       ELSE check_result.status.wait_seconds.seconds
            /\ slept = WaitForReset(check_result.status))
    /\ [](pc = "wait" /\ ~NothingToWait(check_result.status)
            => slept <= check_result.status.wait_seconds.seconds)
    /\ <>WaitDone

\* a wait of eleven seconds was performed and the function returned
C37_Witness ==
    /\ WaitDone
    /\ check_result.status.wait_seconds = Wait(11)
    /\ slept = 11


(***************************************************************************)
(* The review decision of a fetched pull request.                          *)
(***************************************************************************)
\* C36: the review decision of a fetched pull request is the upstream value
\* when that is present and not empty, and None when it is empty or absent;
\* it is REVIEW_REQUIRED only when upstream says so; on both paths.
C36_ReviewDecisionVerbatim ==
    DetailDone =>
        \A i \in 1..Len(detail_result.prs) :
            LET pr == detail_result.prs[i]
                upstream == detail_call.datas[pr.number].reviewDecision
            IN /\ upstream \in {"APPROVED", "CHANGES_REQUESTED", "REVIEW_REQUIRED"}
                    => pr.review_status = upstream
               /\ upstream \in {"", AbsentDecision, NullDecision}
                    => pr.review_status = "None"
               /\ pr.review_status = "REVIEW_REQUIRED" => upstream = "REVIEW_REQUIRED"

\* a batch returned one pull request whose decision is absent, with status
\* None, and one whose decision is APPROVED, with that status
C36_Witness ==
    /\ BatchAnswered
    /\ Len(detail_result.prs) = 2
    /\ \E i, j \in 1..2 :
         /\ detail_call.datas[detail_result.prs[i].number].reviewDecision = AbsentDecision
         /\ detail_result.prs[i].review_status = "None"
         /\ detail_call.datas[detail_result.prs[j].number].reviewDecision = "APPROVED"
         /\ detail_result.prs[j].review_status = "APPROVED"

====
